---- MODULE Spec2Model ----
(***************************************************************************)
(* A model of scripts/ask_question.py of the Youmind skill: one            *)
(* question-answer round of ask_youmind (session acquisition, baseline     *)
(* snapshot, submission, the polling loop that correlates the answer and   *)
(* detects its stability, and the release of the browser session), with    *)
(* the text helpers it uses.                                               *)
(*                                                                         *)
(* A Python str is a sequence of characters; a character is a one-letter   *)
(* string, or "U+XXXX" for a code point outside ASCII.  None is the tuple  *)
(* <<"None">>, which is no text and no message id of the model.            *)
(***************************************************************************)
EXTENDS Integers, Sequences, FiniteSets, TLC

None == <<"None">>

(***************************************************************************)
(* Characters and the character classes of the regular expressions.        *)
(***************************************************************************)
UpperLetters ==
    <<"A", "B", "C", "D", "E", "F", "G", "H", "I", "J", "K", "L", "M",
      "N", "O", "P", "Q", "R", "S", "T", "U", "V", "W", "X", "Y", "Z">>

LowerLetters ==
    <<"a", "b", "c", "d", "e", "f", "g", "h", "i", "j", "k", "l", "m",
      "n", "o", "p", "q", "r", "s", "t", "u", "v", "w", "x", "y", "z">>

Digits ==
    <<"0", "1", "2", "3", "4", "5", "6", "7", "8", "9">>

Range(s) == {s[i] : i \in 1..Len(s)}

\* \s of re, and what str.strip() removes
IsSpace(c) == c \in {" ", "\n", "\t", "\r"}

\* [A-Za-z0-9一-鿿]; of the CJK code points, those the sources name
IsCompactChar(c) ==
    c \in Range(UpperLetters) \cup Range(LowerLetters) \cup Range(Digits)
          \cup {"U+7ED3", "U+6784", "U+5316", "U+4E25", "U+683C", "U+8F93", "U+51FA"}

\* str.lower()
RECURSIVE Lower(_)
Lower(s) ==
    LET LowerChar(c) ==
            IF \E i \in 1..Len(UpperLetters) : UpperLetters[i] = c
            THEN LowerLetters[CHOOSE i \in 1..Len(UpperLetters) : UpperLetters[i] = c]
            ELSE c
    IN  IF s = <<>> THEN <<>> ELSE <<LowerChar(Head(s))>> \o Lower(Tail(s))

\* Python's `needle in hay` on str
Contains(hay, needle) ==
    \E i \in 0..(Len(hay) - Len(needle)) : SubSeq(hay, i + 1, i + Len(needle)) = needle

RECURSIVE DropLeadingSpace(_)
DropLeadingSpace(s) ==
    IF s # <<>> /\ IsSpace(Head(s)) THEN DropLeadingSpace(Tail(s)) ELSE s

\* str.strip()
Strip(s) ==
    LET RECURSIVE DropTrailingSpace(_)
        DropTrailingSpace(t) ==
            IF t # <<>> /\ IsSpace(t[Len(t)])
            THEN DropTrailingSpace(SubSeq(t, 1, Len(t) - 1))
            ELSE t
    IN  DropTrailingSpace(DropLeadingSpace(s))

\* re.sub(r"\s+", " ", s): every maximal run of whitespace becomes one space
RECURSIVE CollapseSpace(_)
CollapseSpace(s) ==
    IF s = <<>> THEN <<>>
    ELSE IF IsSpace(Head(s))
         THEN <<" ">> \o CollapseSpace(DropLeadingSpace(Tail(s)))
         ELSE <<Head(s)>> \o CollapseSpace(Tail(s))

\* _normalize_text without the final strip()
_normalize_text_unstripped(text) == CollapseSpace(text)

\* lines 40-41
_normalize_text(text) == Strip(CollapseSpace(text))

\* re.findall(r"[A-Za-z0-9_-]{5,}", s): the maximal runs of token characters
\* that are at least 5 long (the quantifier is greedy, so a run is one token)
StrongTokens(s) ==
    LET IsTokenChar(c) ==
            c \in Range(UpperLetters) \cup Range(LowerLetters) \cup Range(Digits)
                  \cup {"_", "-"}
    IN  {SubSeq(s, i, j) : <<i, j>> \in
            {p \in (1..Len(s)) \X (1..Len(s)) :
                /\ p[2] - p[1] + 1 >= 5
                /\ \A k \in p[1]..p[2] : IsTokenChar(s[k])
                /\ (p[1] = 1 \/ ~IsTokenChar(s[p[1] - 1]))
                /\ (p[2] = Len(s) \/ ~IsTokenChar(s[p[2] + 1]))}}

\* re.sub(r"[^A-Za-z0-9一-鿿]+", "", s).lower()
Compact(s) == Lower(SelectSeq(s, IsCompactChar))

\* _is_same_question without the rule of the last 10 characters
_is_same_question_without_tail(user_text, submitted) ==
    LET user_norm == _normalize_text(user_text)
        question_norm == _normalize_text(submitted)
        user_compact == Compact(user_norm)
        question_compact == Compact(question_norm)
    IN  IF user_norm = <<>> \/ question_norm = <<>> THEN FALSE
        ELSE IF Contains(user_norm, question_norm) THEN TRUE
        ELSE IF \E token \in StrongTokens(question_norm) : Contains(user_norm, token)
             THEN TRUE
        ELSE IF user_compact = <<>> \/ question_compact = <<>> THEN FALSE
        ELSE Contains(user_compact, question_compact)

\* _is_same_question deciding on strong tokens and compact forms only
_is_same_question_without_containment(user_text, submitted) ==
    LET user_norm == _normalize_text(user_text)
        question_norm == _normalize_text(submitted)
        user_compact == Compact(user_norm)
        question_compact == Compact(question_norm)
    IN  IF user_norm = <<>> \/ question_norm = <<>> THEN FALSE
        ELSE IF \E token \in StrongTokens(question_norm) : Contains(user_norm, token)
             THEN TRUE
        ELSE IF user_compact = <<>> \/ question_compact = <<>> THEN FALSE
        ELSE Contains(user_compact, question_compact)

_is_same_question(user_text, submitted) ==
    LET user_norm == _normalize_text(user_text)
        question_norm == _normalize_text(submitted)
        user_compact == Compact(user_norm)
        question_compact == Compact(question_norm)
    IN  IF user_norm = <<>> \/ question_norm = <<>> THEN FALSE
        ELSE IF Contains(user_norm, question_norm) THEN TRUE
        ELSE IF \E token \in StrongTokens(question_norm) : Contains(user_norm, token)
             THEN TRUE
        ELSE IF user_compact = <<>> \/ question_compact = <<>> THEN FALSE
        ELSE IF Contains(user_compact, question_compact) THEN TRUE
        ELSE IF /\ Len(question_compact) >= 10
                /\ Contains(user_compact,
                            SubSeq(question_compact, Len(question_compact) - 9,
                                   Len(question_compact)))
             THEN TRUE
        ELSE FALSE

_looks_like_metadata_json(text) ==
    LET compact == Lower(_normalize_text(text))
    IN  /\ Contains(compact, <<"\"", "n", "a", "m", "e", "\"">>)
        /\ Contains(compact, <<"\"", "d", "e", "s", "c", "r", "i", "p", "t", "i", "o",
                               "n", "\"">>)
        /\ Contains(compact, <<"\"", "t", "o", "p", "i", "c", "s", "\"">>)

\* the keywords "json", "结构化" and "严格输出"
_question_requests_json(submitted) ==
    LET q == Lower(_normalize_text(submitted))
    IN  \/ Contains(q, <<"j", "s", "o", "n">>)
        \/ Contains(q, <<"U+7ED3", "U+6784", "U+5316">>)
        \/ Contains(q, <<"U+4E25", "U+683C", "U+8F93", "U+51FA">>)

FOLLOW_UP_REMINDER ==
    <<
       "\n", "\n", "E", "X", "T", "R", "E", "M", "E", "L", "Y", " ", "I", "M",
       "P", "O", "R", "T", "A", "N", "T", ":", " ", "I", "s", " ", "t", "h",
       "a", "t", " ", "A", "L", "L", " ", "y", "o", "u", " ", "n", "e", "e",
       "d", " ", "t", "o", " ", "k", "n", "o", "w", "?", " ", "B", "e", "f",
       "o", "r", "e", " ", "r", "e", "p", "l", "y", "i", "n", "g", " ", "t",
       "o", " ", "t", "h", "e", " ", "u", "s", "e", "r", ",", " ", "c", "o",
       "m", "p", "a", "r", "e", " ", "t", "h", "i", "s", " ", "a", "n", "s",
       "w", "e", "r", " ", "w", "i", "t", "h", " ", "t", "h", "e", " ", "o",
       "r", "i", "g", "i", "n", "a", "l", " ", "r", "e", "q", "u", "e", "s",
       "t", ".", " ", "I", "f", " ", "d", "e", "t", "a", "i", "l", "s", " ",
       "a", "r", "e", " ", "m", "i", "s", "s", "i", "n", "g", ",", " ", "a",
       "s", "k", " ", "a", "n", "o", "t", "h", "e", "r", " ", "c", "o", "m",
       "p", "r", "e", "h", "e", "n", "s", "i", "v", "e", " ", "f", "o", "l",
       "l", "o", "w", "-", "u", "p", " ", "q", "u", "e", "s", "t", "i", "o",
       "n", " ", "a", "n", "d", " ", "i", "n", "c", "l", "u", "d", "e", " ",
       "f", "u", "l", "l", " ", "c", "o", "n", "t", "e", "x", "t", "."
    >>

(***************************************************************************)
(* Message ids are Python strings, compared as Python compares str:        *)
(* character by character, a proper prefix being the smaller.              *)
(***************************************************************************)
Ord(c) == CHOOSE i \in 1..Len(Digits) : Digits[i] = c

\* a < b on str
StrLess(a, b) ==
    \E k \in 1..Len(b) :
        /\ \A i \in 1..(k - 1) : i <= Len(a) /\ a[i] = b[i]
        /\ \/ k = Len(a) + 1
           \/ k <= Len(a) /\ Ord(a[k]) < Ord(b[k])

\* max() of a non-empty collection of str
StrMax(ids) == CHOOSE m \in ids : \A x \in ids : ~StrLess(m, x)

(***************************************************************************)
(* The page: the nodes the conversation selector finds, in document order. *)
(* A node has its class, its two id attributes (<<>> when absent or        *)
(* empty), its inner text, and whether reading it raises.                  *)
(***************************************************************************)

Node(class, pick, mid, text, raises) ==
    [class |-> class, pick |-> pick, mid |-> mid, inner_text |-> text, raises |-> raises]

\* CollectNode that gives up what was read when a node raises
CollectNodeAbortsOnRaise(sequence, el) ==
    LET text == _normalize_text(el.inner_text)
        msg_type == IF el.class = "ym-askai-container" THEN "assistant" ELSE "user"
        msg_id == IF el.pick # <<>> THEN el.pick ELSE el.mid
    IN  IF el.raises THEN <<>>
        ELSE IF text = <<>> THEN sequence
        ELSE IF msg_id = <<>> THEN sequence
        ELSE Append(sequence, [type |-> msg_type, id |-> msg_id, text |-> text])

\* One element of the loop of _collect_conversation_sequence: the sequence
\* after the node was visited.
CollectNode(sequence, el) ==
    LET text == _normalize_text(el.inner_text)
        msg_type == IF el.class = "ym-askai-container" THEN "assistant" ELSE "user"
        msg_id == IF el.pick # <<>> THEN el.pick ELSE el.mid
    IN  IF el.raises THEN sequence
        ELSE IF text = <<>> THEN sequence
        ELSE IF msg_id = <<>> THEN sequence
        ELSE Append(sequence, [type |-> msg_type, id |-> msg_id, text |-> text])

\* page.reachable = FALSE: query_selector_all raises
_collect_conversation_sequence(page) ==
    LET RECURSIVE CollectNodes(_, _)
        CollectNodes(sequence, elements) ==
            IF elements = <<>> THEN sequence
            ELSE CollectNodes(CollectNode(sequence, Head(elements)), Tail(elements))
    IN  IF ~page.reachable THEN <<>> ELSE CollectNodes(<<>>, page.nodes)

(***************************************************************************)
(* The inputs of the model: two questions, and the nodes a page may hold.  *)
(***************************************************************************)
QuestionPlain ==
    <<
       "h", "i", " ", "t", "l", "a"
    >>
QuestionJson ==
    <<
       "H", "i", " ", " ", "J", "S", "O", "N"
    >>

TextOther ==
    <<
       "b", "y", "e"
    >>
TextOld ==
    <<
       "o", "l", "d"
    >>
TextNew ==
    <<
       "n", "e", "w"
    >>
TextMeta ==
    <<
       "{", "\"", "N", "a", "m", "e", "\"", ":", " ", "1", ",", "\n", " ", "\"",
       "d", "e", "s", "c", "r", "i", "p", "t", "i", "o", "n", "\"", ":", " ",
       "2", ",", " ", "\"", "t", "o", "p", "i", "c", "s", "\"", ":", " ", "3",
       "}"
    >>
\* The user turn as the page renders the question.
Rendered(q) == <<"Y", "o", "u", ":", "\n">> \o q \o <<"\n">>

\* The nodes of a board conversation, in document order: an earlier asking of
\* the question, another user turn and its answer, then the turns that may
\* appear after the submission.
Pool(q) ==
    << Node("ym-ask-user-content", <<>>, <<"3">>, Rendered(q), FALSE),
       Node("ym-ask-user-content", <<>>, <<"5">>, TextOther, FALSE),
       Node("ym-askai-container", <<"8">>, <<>>, TextOld, FALSE),
       Node("ym-ask-user-content", <<>>, <<"7">>, Rendered(q), FALSE),
       Node("ym-ask-user-content", <<>>, <<"9">>, TextOther, FALSE),
       Node("ym-askai-container", <<"9", "5">>, <<>>, TextNew, FALSE),
       Node("ym-askai-container", <<>>, <<"9", "6">>, TextMeta, FALSE) >>

\* the largest number of nodes one read finds
MaxNodes == 2

RECURSIVE SelectNodes(_, _, _)
SelectNodes(pool, chosen, i) ==
    IF i > Len(pool) THEN <<>>
    ELSE (IF i \in chosen THEN <<pool[i]>> ELSE <<>>) \o SelectNodes(pool, chosen, i + 1)

\* The pages a poll may find: any nodes of the pool, in document order; or
\* the page cannot be queried at all.
PagesOf(q) ==
    {[reachable |-> TRUE, nodes |-> SelectNodes(Pool(q), chosen, 1)] :
        chosen \in {c \in SUBSET (1..Len(Pool(q))) : Cardinality(c) <= MaxNodes}}
    \cup {[reachable |-> FALSE, nodes |-> <<>>]}

\* What a read of such a page returns, per question.
ReadsPlain == {_collect_conversation_sequence(page) : page \in PagesOf(QuestionPlain)}
ReadsJson == {_collect_conversation_sequence(page) : page \in PagesOf(QuestionJson)}

\* The texts the reads hold, and the value of the two text predicates of the
\* loop on them, tabulated once (the outer braces make TLC enumerate the set).
ReadTexts == {conv[1].text : conv \in {c \in ReadsPlain \cup ReadsJson : Len(c) = 1}}

NormalizedPlain == _normalize_text(QuestionPlain)
NormalizedJson == _normalize_text(QuestionJson)

\* lines 295-296 for the questions asked, tabulated once
NormalizedQuestion(submitted) ==
    IF submitted = QuestionPlain THEN NormalizedPlain ELSE NormalizedJson

ExpectsJsonPlain == _question_requests_json(NormalizedPlain)
ExpectsJsonJson == _question_requests_json(NormalizedJson)

ExpectsJson(normalized) ==
    IF normalized = NormalizedPlain THEN ExpectsJsonPlain ELSE ExpectsJsonJson

SameQuestionPlain ==
    {t : t \in {text \in ReadTexts : _is_same_question(text, NormalizedPlain)}}

SameQuestionJson ==
    {t : t \in {text \in ReadTexts : _is_same_question(text, NormalizedJson)}}

SameQuestionTexts(q) == IF q = NormalizedPlain THEN SameQuestionPlain ELSE SameQuestionJson

MetadataTexts == {t : t \in {text \in ReadTexts : _looks_like_metadata_json(text)}}

\* The pages the snapshot may find before the submission.
EmptyPage == [reachable |-> TRUE, nodes |-> <<>>]
\* The prior page: an earlier answer whose text a later answer repeats, and
\* the first three nodes of the pool.
PriorPage(q) ==
    [reachable |-> TRUE,
     nodes |-> <<Node("ym-askai-container", <<"4">>, <<>>, TextNew, FALSE)>>
               \o SelectNodes(Pool(q), {1, 2, 3}, 1)]
SnapshotPages(q) == {EmptyPage, PriorPage(q)}

(***************************************************************************)
(* The identity correlator and the candidate selection of one poll.        *)
(***************************************************************************)
IsUser(msg) == msg.type = "user"
IsAssistant(msg) == msg.type = "assistant"

\* lines 341-345
MatchingUserIds(users, normalized) ==
    {users[i].id : i \in {j \in 1..Len(users) :
        /\ normalized # <<>>
        /\ users[j].text \in SameQuestionTexts(normalized)}}

\* lines 337-345 on each conversation a poll may read, tabulated once: the
\* conversation, the ids of its user turns and the ids of its matching ones
PolledRead(conv, normalized) ==
    [conversation |-> conv,
     user_ids |-> {conv[i].id : i \in {j \in 1..Len(conv) : IsUser(conv[j])}},
     matching_user_ids |-> MatchingUserIds(SelectSeq(conv, IsUser), normalized)]

PolledPlain == {PolledRead(conv, NormalizedPlain) : conv \in ReadsPlain}
PolledJson == {PolledRead(conv, NormalizedJson) : conv \in ReadsJson}
Polled(q) == IF q = QuestionPlain THEN PolledPlain ELSE PolledJson

\* PrimaryPath without the comparison against the baseline
PrimaryPathNoFloor(target, is_match, users, normalized, baseline) ==
    LET matching_user_ids == MatchingUserIds(users, normalized)
    IN  IF matching_user_ids # {}
        THEN <<StrMax(matching_user_ids), TRUE>>
        ELSE <<target, is_match>>

\* PrimaryPath taking the oldest matching turn above the baseline
PrimaryPathOldest(target, is_match, users, normalized, baseline) ==
    LET matching_user_ids ==
            {id \in MatchingUserIds(users, normalized) : StrLess(baseline, id)}
    IN  IF matching_user_ids # {}
        THEN <<CHOOSE a \in matching_user_ids :
                  \A b \in matching_user_ids : ~StrLess(b, a), TRUE>>
        ELSE <<target, is_match>>

\* PrimaryPath that drops the target when no turn matches
PrimaryPathForgets(target, is_match, users, normalized, baseline) ==
    LET matching_user_ids == MatchingUserIds(users, normalized)
    IN  IF matching_user_ids # {} /\ StrLess(baseline, StrMax(matching_user_ids))
        THEN <<StrMax(matching_user_ids), TRUE>>
        ELSE <<None, FALSE>>

\* lines 346-350: <<target_user_id, target_user_is_question_match>> after the
\* primary path
PrimaryPath(target, is_match, users, normalized, baseline) ==
    LET matching_user_ids == MatchingUserIds(users, normalized)
    IN  IF matching_user_ids # {} /\ StrLess(baseline, StrMax(matching_user_ids))
        THEN <<StrMax(matching_user_ids), TRUE>>
        ELSE <<target, is_match>>

\* FallbackPath without the 20 second grace period
FallbackPathNoGrace(target, el, users, baseline) ==
    LET post_submit_user_ids ==
            {users[i].id : i \in {j \in 1..Len(users) : StrLess(baseline, users[j].id)}}
    IN  IF target = None /\ post_submit_user_ids # {}
        THEN StrMax(post_submit_user_ids)
        ELSE target

\* FallbackPath that assigns even when a target is already set
FallbackPathReassigns(target, el, users, baseline) ==
    LET post_submit_user_ids ==
            {users[i].id : i \in {j \in 1..Len(users) : StrLess(baseline, users[j].id)}}
    IN  IF el >= 20 /\ post_submit_user_ids # {}
        THEN StrMax(post_submit_user_ids)
        ELSE target

\* lines 353-358: target_user_id after the fallback
FallbackPath(target, el, users, baseline) ==
    LET post_submit_user_ids ==
            {users[i].id : i \in {j \in 1..Len(users) : StrLess(baseline, users[j].id)}}
    IN  IF target = None /\ el >= 20 /\ post_submit_user_ids # {}
        THEN StrMax(post_submit_user_ids)
        ELSE target

\* the assistants left in document order
KeepDocumentOrder(msgs) == msgs

\* sorted(..., key=lambda x: x["id"]): a stable sort
RECURSIVE SortById(_)
SortById(msgs) ==
    LET RECURSIVE InsertById(_, _)
        InsertById(sorted, msg) ==
            IF sorted = <<>> THEN <<msg>>
            ELSE IF StrLess(msg.id, sorted[Len(sorted)].id)
                 THEN Append(InsertById(SubSeq(sorted, 1, Len(sorted) - 1), msg),
                             sorted[Len(sorted)])
                 ELSE Append(sorted, msg)
    IN  IF msgs = <<>> THEN <<>>
        ELSE InsertById(SortById(SubSeq(msgs, 1, Len(msgs) - 1)), msgs[Len(msgs)])

NoCandidate == [id |-> None, text |-> None]

\* Eligible without the skip of metadata-looking texts
EligibleNoMetadataFilter(assistant_text, is_match, el, expects, previous_texts) ==
    /\ assistant_text # <<>>
    /\ ~(~is_match /\ assistant_text \in previous_texts /\ el < 20)

\* lines 366-376: an assistant turn the loop does not skip
Eligible(assistant_text, is_match, el, expects, previous_texts) ==
    /\ assistant_text # <<>>
    /\ ~(assistant_text \in MetadataTexts /\ ~expects)
    /\ ~(~is_match /\ assistant_text \in previous_texts /\ el < 20)

\* lines 360-379: candidate_id and candidate of the poll
SelectCandidate(assistants, target, is_match, el, expects, previous_texts) ==
    IF target = None THEN NoCandidate
    ELSE
        LET post_target_assistants ==
                SortById(SelectSeq(assistants, LAMBDA msg : StrLess(target, msg.id)))
            ok == {i \in 1..Len(post_target_assistants) :
                      Eligible(post_target_assistants[i].text, is_match, el,
                               expects, previous_texts)}
        IN  IF ok = {} THEN NoCandidate
            ELSE LET first == CHOOSE i \in ok : \A j \in ok : i <= j
                 IN  [id |-> post_target_assistants[first].id,
                      text |-> post_target_assistants[first].text]

\* IsDone without the 3 second dwell
IsDoneNoDwell(count, el) == count >= 2

\* line 384
IsDone(count, el) == count >= 2 /\ el >= 3

\* the deadline without the 30 second floor
DeadlineAsRequested(timeout) == timeout

\* line 323
Deadline(timeout) == IF timeout > 30 THEN timeout ELSE 30

(***************************************************************************)
(* One round of ask_youmind.                                               *)
(***************************************************************************)
VARIABLES
    pc,                             \* the place of the round in ask_youmind
    question, timeout_seconds,      \* the arguments
    prior_page,                     \* the board's conversation before the submission
    visible_inputs,                 \* the input selectors the board page shows
    send_buttons,                   \* what a click on each send selector does
    playwright, context,            \* the driver and the context are held (not None)
    context_closed,                 \* context.close() was called
    playwright_stopped,             \* playwright.stop() was called
    baseline_max_user_id, previous_assistant_text_set,
    normalized_question, expects_json,
    input_selector,                 \* 0: None
    typed, enter_presses, send_clicks,
    deadline,                       \* in whole seconds after submit_started_at
    clock,                          \* floor(time.time() - submit_started_at)
    user_ids, matching_user_ids,    \* the ids of users and of the matching users
    elapsed, candidate, candidate_id,
    stable_count, last_candidate_id, last_text,
    target_user_id, target_user_is_question_match,
    printed,                        \* the diagnostic the round ended with
    result                          \* the value returned, None until a success

\* One call of a helper outside a round: the function called with its
\* arguments, and the value it returned.
VARIABLES call, returned

calls == <<call, returned>>
NoCall == [fn |-> "none", args |-> <<>>, of_returned |-> FALSE]

\* BoardLibrary of board_manager.py: self.boards, a dict in insertion order
\* (a sequence of entries, each a key with its board), self.active_board_id
\* and what library.json holds; and the frame of a call of smart_add_board
VARIABLES library, smart_add

board_manager == <<library, smart_add>>

\* lines 46-54 and 56-59: a library constructed without a library.json
\* saves the empty one
NoLibrary ==
    [boards |-> <<>>, active_board_id |-> None,
     library_file |-> [boards |-> <<>>, active_board_id |-> None]]

\* no smart_add_board is called
NoSmartAdd ==
    /\ library = NoLibrary
    /\ smart_add = [pc |-> "idle"]

session == <<playwright, context, context_closed, playwright_stopped>>
snapshot == <<baseline_max_user_id, previous_assistant_text_set, normalized_question, expects_json>>
submission == <<input_selector, typed, enter_presses, send_clicks>>
timing == <<deadline, clock>>
poll == <<user_ids, matching_user_ids, elapsed, candidate, candidate_id>>
stability == <<stable_count, last_candidate_id, last_text>>
correlation == <<target_user_id, target_user_is_question_match>>
args == <<question, timeout_seconds, prior_page, visible_inputs, send_buttons>>
vars == <<pc, args, session, snapshot, submission, timing, poll, stability, correlation,
          printed, result, calls, board_manager>>

\* the entries of QUERY_INPUT_SELECTORS and of SEND_BUTTON_SELECTORS
NumInputSelectors == 6
NumSendSelectors == 3

\* The whole seconds the clock may move while a read lasts, and while the
\* rest of an iteration with its sleep of 0.8 s lasts (one at least).
MaxReadDelay == 0
MaxSleepAdvance == 2

\* The rounds asked: a question, the timeout requested for it, and the board
\* it is asked on: its conversation, and what a click on each send selector
\* does, in the order of SEND_BUTTON_SELECTORS.
Rounds ==
    {[question |-> QuestionPlain, timeout_seconds |-> 0, prior_page |-> EmptyPage,
      send_buttons |-> <<"raises", "missed", "clicked">>],
     [question |-> QuestionPlain, timeout_seconds |-> -7,
      prior_page |-> PriorPage(QuestionPlain),
      send_buttons |-> <<"clicked", "raises", "clicked">>],
     [question |-> QuestionJson, timeout_seconds |-> 31, prior_page |-> EmptyPage,
      send_buttons |-> <<"missed", "raises", "missed">>],
     [question |-> QuestionJson, timeout_seconds |-> 12,
      prior_page |-> PriorPage(QuestionJson),
      send_buttons |-> <<"missed", "clicked", "clicked">>]}

\* The selectors of QUERY_INPUT_SELECTORS that a board page may show.
InputSurfaces == {{}, {2, 5}}

\* lines 270-271 and 322-328, and the rest of the locals before they are set
Locals ==
    /\ playwright = FALSE
    /\ context = FALSE
    /\ context_closed = FALSE
    /\ playwright_stopped = FALSE
    /\ baseline_max_user_id = None
    /\ previous_assistant_text_set = {}
    /\ normalized_question = None
    /\ expects_json = FALSE
    /\ input_selector = 0
    /\ typed = FALSE
    /\ enter_presses = 0
    /\ send_clicks = <<>>
    /\ deadline = 0
    /\ clock = 0
    /\ user_ids = {}
    /\ matching_user_ids = {}
    /\ elapsed = 0
    /\ candidate = None
    /\ candidate_id = None
    /\ stable_count = 0
    /\ last_candidate_id = None
    /\ last_text = None
    /\ target_user_id = None
    /\ target_user_is_question_match = FALSE
    /\ printed = "nothing"
    /\ result = None

Init ==
    /\ pc = "auth"
    /\ \E round \in Rounds :
          /\ question = round.question
          /\ timeout_seconds = round.timeout_seconds
          /\ prior_page = round.prior_page
          /\ prior_page \in SnapshotPages(round.question)
          /\ send_buttons = round.send_buttons
    /\ visible_inputs \in InputSurfaces
    /\ Locals
    /\ call = NoCall
    /\ returned = None
    /\ NoSmartAdd

\* no round is asked
NoRound ==
    /\ pc = "idle"
    /\ question = None
    /\ timeout_seconds = 0
    /\ prior_page = EmptyPage
    /\ visible_inputs = {}
    /\ send_buttons = <<>>
    /\ Locals

\* lines 259-262
CheckAuth ==
    /\ pc = "auth"
    /\ \E is_authenticated \in BOOLEAN :
          IF is_authenticated
          THEN pc' = "start_playwright" /\ UNCHANGED printed
          ELSE pc' = "done" /\ printed' = "not-authenticated"
    /\ UNCHANGED <<board_manager, calls, args, session, snapshot, submission, timing, poll, stability,
                   correlation, result>>

\* line 274
StartPlaywright ==
    /\ pc = "start_playwright"
    /\ \E raises \in BOOLEAN :
          IF raises
          THEN pc' = "except" /\ UNCHANGED playwright
          ELSE pc' = "launch" /\ playwright' = TRUE
    /\ UNCHANGED <<board_manager, calls, args, context, context_closed, playwright_stopped, snapshot, submission,
                   timing, poll, stability, correlation, printed, result>>

\* line 275
LaunchContext ==
    /\ pc = "launch"
    /\ \E raises \in BOOLEAN :
          IF raises
          THEN pc' = "except" /\ UNCHANGED context
          ELSE pc' = "open_board" /\ context' = TRUE
    /\ UNCHANGED <<board_manager, calls, args, playwright, context_closed, playwright_stopped, snapshot, submission,
                   timing, poll, stability, correlation, printed, result>>

\* lines 277-284
OpenBoard ==
    /\ pc = "open_board"
    /\ \E page_url \in {"board", "sign-in", "elsewhere", "raises"} :
          CASE page_url = "raises" -> pc' = "except" /\ UNCHANGED printed
            [] page_url = "board" -> pc' = "snapshot" /\ UNCHANGED printed
            [] OTHER -> pc' = "finally_context" /\ printed' = "redirected-to-sign-in"
    /\ UNCHANGED <<board_manager, calls, args, session, snapshot, submission, timing, poll, stability,
                   correlation, result>>

\* lines 286-296
TakeSnapshot ==
    /\ pc = "snapshot"
    /\    LET previous_sequence == _collect_conversation_sequence(prior_page)
              previous_user_ids ==
                  {previous_sequence[i].id :
                      i \in {j \in 1..Len(previous_sequence) : IsUser(previous_sequence[j])}}
          IN  /\ baseline_max_user_id' =
                    IF previous_user_ids # {} THEN StrMax(previous_user_ids) ELSE <<>>
              /\ previous_assistant_text_set' =
                    {previous_sequence[i].text :
                        i \in {j \in 1..Len(previous_sequence) :
                                  IsAssistant(previous_sequence[j])}}
    /\ normalized_question' = NormalizedQuestion(question)
    /\ expects_json' = ExpectsJson(NormalizedQuestion(question))
    /\ pc' = "find_input"
    /\ UNCHANGED <<board_manager, calls, args, session, submission, timing, poll, stability, correlation,
                   printed, result>>

\* _find_input_selector: the first selector that becomes visible, 0 for None
FirstVisible(visible) ==
    IF visible = {} THEN 0 ELSE CHOOSE s \in visible : \A t \in visible : s <= t

\* FindInput that reports the missing input and goes on
FindInputGoesOn ==
    /\ pc = "find_input"
    /\ input_selector' = FirstVisible(visible_inputs)
    /\ pc' = "type"
    /\ IF FirstVisible(visible_inputs) = 0
       THEN printed' = "input-not-found"
       ELSE UNCHANGED printed
    /\ UNCHANGED <<board_manager, calls, args, session, snapshot, typed, enter_presses, send_clicks, timing, poll,
                   stability, correlation, result>>

\* lines 298-303
FindInput ==
    /\ pc = "find_input"
    /\ input_selector' = FirstVisible(visible_inputs)
    /\ IF FirstVisible(visible_inputs) = 0
       THEN pc' = "finally_context" /\ printed' = "input-not-found"
       ELSE pc' = "type" /\ UNCHANGED printed
    /\ UNCHANGED <<board_manager, calls, args, session, snapshot, typed, enter_presses, send_clicks, timing, poll,
                   stability, correlation, result>>

\* lines 304-305
TypeQuestion ==
    /\ pc = "type"
    /\ \E raises \in BOOLEAN :
          IF raises
          THEN pc' = "except" /\ UNCHANGED typed
          ELSE pc' = "press_enter" /\ typed' = TRUE
    /\ UNCHANGED <<board_manager, calls, args, session, snapshot, input_selector, enter_presses, send_clicks,
                   timing, poll, stability, correlation, printed, result>>

\* lines 308-309
PressEnter ==
    /\ pc = "press_enter"
    /\ \E raises \in BOOLEAN :
          IF raises
          THEN pc' = "except" /\ UNCHANGED enter_presses
          ELSE pc' = "click_send" /\ enter_presses' = enter_presses + 1
    /\ UNCHANGED <<board_manager, calls, args, session, snapshot, input_selector, typed, send_clicks,
                   timing, poll, stability, correlation, printed, result>>

\* the loop of lines 313-318 without its break
RECURSIVE TriedAllSendSelectors(_, _)
TriedAllSendSelectors(buttons, s) ==
    IF s > NumSendSelectors THEN <<>>
    ELSE <<s>> \o TriedAllSendSelectors(buttons, s + 1)

\* lines 313-318: the send selectors a click is tried on, from selector s on:
\* a click that raises or fails goes on to the next, one that succeeds ends
\* the loop
RECURSIVE TriedSendSelectors(_, _)
TriedSendSelectors(buttons, s) ==
    IF s > NumSendSelectors THEN <<>>
    ELSE IF buttons[s] = "clicked" THEN <<s>>
    ELSE <<s>> \o TriedSendSelectors(buttons, s + 1)

\* lines 312-318
ClickSend ==
    /\ pc = "click_send"
    /\ send_clicks' = send_clicks \o TriedSendSelectors(send_buttons, 1)
    /\ pc' = "start_polling"
    /\ UNCHANGED <<board_manager, calls, args, session, snapshot, input_selector, typed, enter_presses,
                   timing, poll, stability, correlation, printed, result>>

\* StartPolling that starts the loop from an empty baseline
StartPollingClearsBaseline ==
    /\ pc = "start_polling"
    /\ clock' = 0
    /\ deadline' = Deadline(timeout_seconds)
    /\ stable_count' = 0
    /\ last_candidate_id' = None
    /\ last_text' = None
    /\ target_user_id' = None
    /\ target_user_is_question_match' = FALSE
    /\ baseline_max_user_id' = <<>>
    /\ pc' = "loop"
    /\ UNCHANGED <<board_manager, calls, args, session, previous_assistant_text_set, normalized_question,
                   expects_json, submission, poll, printed, result>>

\* lines 322-328
StartPolling ==
    /\ pc = "start_polling"
    /\ clock' = 0
    /\ deadline' = Deadline(timeout_seconds)
    /\ stable_count' = 0
    /\ last_candidate_id' = None
    /\ last_text' = None
    /\ target_user_id' = None
    /\ target_user_is_question_match' = FALSE
    /\ pc' = "loop"
    /\ UNCHANGED <<board_manager, calls, args, session, snapshot, submission, poll, printed, result>>

\* Stability that goes on counting when the pair changes
StabilityNoReset(found, count, last_id, text, el) ==
    IF found.text = None THEN <<count, last_id, text, FALSE>>
    ELSE IF found.id = last_id /\ found.text = text
         THEN <<count + 1, last_id, text, IsDone(count + 1, el)>>
         ELSE <<count + 1, found.id, found.text, FALSE>>

\* lines 381-390: <<stable_count, last_candidate_id, last_text, done>> after
\* the candidate of the poll
Stability(found, count, last_id, text, el) ==
    IF found.text = None THEN <<count, last_id, text, FALSE>>
    ELSE IF found.id = last_id /\ found.text = text
         THEN <<count + 1, last_id, text, IsDone(count + 1, el)>>
         ELSE <<1, found.id, found.text, FALSE>>

\* lines 360-379, given the target the two paths left
AfterFallback(target, is_match, assistants, el, expects, previous_texts) ==
    <<target, is_match,
      SelectCandidate(assistants, target, is_match, el, expects, previous_texts)>>

\* lines 352-379, given what the primary path left
AfterPrimary(primary, users, assistants, el, baseline, expects, previous_texts) ==
    AfterFallback(FallbackPath(primary[1], el, users, baseline), primary[2],
                  assistants, el, expects, previous_texts)

\* Correlate that drops the target when the read is empty
CorrelateForgetsOnEmpty(conv, target, is_match, el, normalized, baseline, expects, previous_texts) ==
    IF conv = <<>> THEN <<None, FALSE, NoCandidate>>
    ELSE AfterPrimary(PrimaryPath(target, is_match, SelectSeq(conv, IsUser), normalized,
                                  baseline),
                      SelectSeq(conv, IsUser), SelectSeq(conv, IsAssistant), el, baseline,
                      expects, previous_texts)

\* lines 336-379: <<target_user_id, target_user_is_question_match, candidate>>
\* after the correlation of the poll
Correlate(conv, target, is_match, el, normalized, baseline, expects, previous_texts) ==
    IF conv = <<>> THEN <<target, is_match, NoCandidate>>
    ELSE AfterPrimary(PrimaryPath(target, is_match, SelectSeq(conv, IsUser), normalized,
                                  baseline),
                      SelectSeq(conv, IsUser), SelectSeq(conv, IsAssistant), el, baseline,
                      expects, previous_texts)

\* the candidate alone as the value returned
AnswerWithoutReminder(text) == text

\* line 386: the value returned on success
Answer(text) == text \o FOLLOW_UP_REMINDER

\* lines 330-390: one iteration of the loop up to its sleep, given how long
\* the read took and what it returned: the correlation, the candidate and
\* the stability count
PollStep(delay, read) ==
    /\ pc = "loop"
    /\ clock < deadline
    /\ elapsed' = clock + delay
    /\ clock' = clock + delay
    /\ user_ids' = read.user_ids
    /\ matching_user_ids' = read.matching_user_ids
    /\ \E correlated \in {Correlate(read.conversation, target_user_id,
                                     target_user_is_question_match,
                                     clock + delay, normalized_question,
                                     baseline_max_user_id, expects_json,
                                     previous_assistant_text_set)} :
       /\ target_user_id' = correlated[1]
       /\ target_user_is_question_match' = correlated[2]
       /\ candidate' = correlated[3].text
       /\ candidate_id' = correlated[3].id
       /\ \E stable \in {Stability(correlated[3], stable_count,
                                    last_candidate_id, last_text,
                                    clock + delay)} :
          /\ stable_count' = stable[1]
          /\ last_candidate_id' = stable[2]
          /\ last_text' = stable[3]
          /\ IF stable[4]
             THEN /\ printed' = "got-answer"
                  /\ result' = Answer(correlated[3].text)
                  /\ pc' = "finally_context"
             ELSE /\ pc' = "sleep"
                  /\ UNCHANGED <<printed, result>>
    /\ UNCHANGED <<board_manager, calls, args, session, snapshot, submission, deadline>>

\* line 331: the read takes some time and returns one of the conversations
Poll ==
    /\ pc = "loop"
    /\ \E delay \in 0..MaxReadDelay : \E read \in Polled(question) : PollStep(delay, read)

\* Sleep that returns at once while the busy indicator shows
SleepNoAdvance ==
    /\ pc = "sleep"
    /\ \E is_thinking \in BOOLEAN, advance \in 1..MaxSleepAdvance :
          clock' = IF is_thinking THEN clock ELSE clock + advance
    /\ user_ids' = {}
    /\ matching_user_ids' = {}
    /\ candidate' = None
    /\ candidate_id' = None
    /\ pc' = "loop"
    /\ UNCHANGED <<board_manager, calls, args, session, snapshot, submission, deadline, elapsed, stability,
                   correlation, printed, result>>

\* SleepStep that waits for the busy indicator to clear before the next read
SleepStepWaitsWhileBusy(is_thinking, advance) ==
    /\ pc = "sleep"
    /\ clock' = clock + advance
    /\ pc' = IF is_thinking THEN "sleep" ELSE "loop"
    /\ user_ids' = {}
    /\ matching_user_ids' = {}
    /\ candidate' = None
    /\ candidate_id' = None
    /\ UNCHANGED <<board_manager, calls, args, session, snapshot, submission, deadline, elapsed, stability,
                   correlation, printed, result>>

\* lines 392-397 with the reading of the busy indicator and the whole
\* seconds the clock moves: the loop sleeps 0.8 s and goes on to its test
\* on either branch.  The locals of the iteration are dead from here on and
\* are cleared (as lines 332-333 do for the candidate in the next iteration).
SleepStep(is_thinking, advance) ==
    /\ pc = "sleep"
    /\ IF is_thinking
       THEN clock' = clock + advance /\ pc' = "loop"
       ELSE clock' = clock + advance /\ pc' = "loop"
    /\ user_ids' = {}
    /\ matching_user_ids' = {}
    /\ candidate' = None
    /\ candidate_id' = None
    /\ UNCHANGED <<board_manager, calls, args, session, snapshot, submission, deadline, elapsed, stability,
                   correlation, printed, result>>

\* lines 392-397
Sleep ==
    \E is_thinking \in BOOLEAN, advance \in 1..MaxSleepAdvance :
        SleepStep(is_thinking, advance)

\* Timeout that returns the candidate recorded last
TimeoutPartial ==
    /\ pc = "loop"
    /\ ~(clock < deadline)
    /\ printed' = "timeout"
    /\ result' = last_text
    /\ pc' = "finally_context"
    /\ UNCHANGED <<board_manager, calls, args, session, snapshot, submission, timing, poll, stability,
                   correlation>>

\* lines 399-400
Timeout ==
    /\ pc = "loop"
    /\ ~(clock < deadline)
    /\ printed' = "timeout"
    /\ pc' = "finally_context"
    /\ UNCHANGED <<board_manager, calls, args, session, snapshot, submission, timing, poll, stability,
                   correlation, result>>

\* Except that reports nothing
ExceptSilent ==
    /\ pc = "except"
    /\ pc' = "finally_context"
    /\ UNCHANGED <<board_manager, calls, args, session, snapshot, submission, timing, poll, stability,
                   correlation, printed, result>>

\* lines 402-404
Except ==
    /\ pc = "except"
    /\ printed' = "error"
    /\ pc' = "finally_context"
    /\ UNCHANGED <<board_manager, calls, args, session, snapshot, submission, timing, poll, stability,
                   correlation, result>>

\* CloseContext whose exception is not caught
CloseContextUncaught ==
    /\ pc = "finally_context"
    /\ \E raises \in BOOLEAN :
          /\ context_closed' = context
          /\ pc' = IF context /\ raises THEN "done" ELSE "finally_playwright"
    /\ UNCHANGED <<board_manager, calls, args, playwright, context, playwright_stopped, snapshot, submission,
                   timing, poll, stability, correlation, printed, result>>

\* lines 407-411
CloseContext ==
    /\ pc = "finally_context"
    /\ \E raises \in BOOLEAN : context_closed' = context
    /\ pc' = "finally_playwright"
    /\ UNCHANGED <<board_manager, calls, args, playwright, context, playwright_stopped, snapshot, submission,
                   timing, poll, stability, correlation, printed, result>>

\* lines 412-416
StopPlaywright ==
    /\ pc = "finally_playwright"
    /\ \E raises \in BOOLEAN : playwright_stopped' = playwright
    /\ pc' = "done"
    /\ UNCHANGED <<board_manager, calls, args, playwright, context, context_closed, snapshot, submission,
                   timing, poll, stability, correlation, printed, result>>

Next ==
    \/ CheckAuth
    \/ StartPlaywright
    \/ LaunchContext
    \/ OpenBoard
    \/ TakeSnapshot
    \/ FindInput
    \/ TypeQuestion
    \/ PressEnter
    \/ ClickSend
    \/ StartPolling
    \/ Poll
    \/ Sleep
    \/ Timeout
    \/ Except
    \/ CloseContext
    \/ StopPlaywright

Spec == Init /\ [][Next]_vars

(***************************************************************************)
(* The text helpers called on their own: _normalize_text on a text and on  *)
(* the value it returned, and _is_same_question on a text and itself.      *)
(***************************************************************************)
\* the characters of the texts: two kinds of whitespace, a letter, a mark
TextChars == {" ", "\n", "a", "?"}

\* the length of the longest text
MaxTextLen == 3

RECURSIVE Texts(_)
Texts(len) ==
    IF len = 0 THEN {<<>>}
    ELSE Texts(len - 1) \cup {Append(t, c) : t \in Texts(len - 1), c \in TextChars}

\* Texts for _is_same_question with two different arguments: a question and
\* its rendering, a question with a long token and a text that holds only the
\* token, the question with other case and punctuation, a long question and
\* a text that holds only its tail, texts of marks only, the same token in
\* upper and lower case, and texts that are empty once normalized.

QuestionSamples ==
    {<<>>,
     <<"h", "i", " ", "t", "l", "a">>,
     <<"Y", "o", "u", ":", "\n", "h", "i", " ", " ", "t", "l", "a", "!">>,
     <<"i", "d", " ", "a", "b", "c", "d", "e", "-", "1", " ", "o", "k", "?">>,
     <<"r", "e", ":", " ", "a", "b", "c", "d", "e", "-", "1">>,
     <<"H", "i", ",", " ", "T", "L", "A">>,
     <<"a", "b", " ", "c", "d", " ", "e", "f", " ", "g", "h", " ", "i", "j", " ", "k", "l">>,
     <<"c", "d", " ", "e", "f", " ", "g", "h", " ", "i", "j", " ", "k", "l", "!">>,
     <<"?", "!">>,
     <<"?", "!", " ", "?">>,
     <<"A", "B", "C", "D", "E", " ", "f", "g">>,
     <<"a", "b", "c", "d", "e">>,
     <<" ", "\n">>}

Input(arguments) == [fn |-> "input", args |-> arguments, of_returned |-> FALSE]

TextInit ==
    /\ NoRound
    /\ NoSmartAdd
    /\ call \in {Input(<<t>>) : t \in Texts(MaxTextLen)}
                \cup {Input(<<user_text, submitted>>) :
                         user_text \in QuestionSamples, submitted \in QuestionSamples}
    /\ returned = None

\* line 41 on the text drawn
CallNormalize ==
    /\ call.fn = "input"
    /\ call' = [call EXCEPT !.fn = "_normalize_text"]
    /\ returned' = _normalize_text(call.args[1])
    /\ UNCHANGED <<board_manager, pc, args, session, snapshot, submission, timing, poll, stability,
                   correlation, printed, result>>

\* line 41 on the value the call before returned
CallNormalizeAgain ==
    /\ call.fn = "_normalize_text"
    /\ ~call.of_returned
    /\ call' = [fn |-> "_normalize_text", args |-> <<returned>>, of_returned |-> TRUE]
    /\ returned' = _normalize_text(returned)
    /\ UNCHANGED <<board_manager, pc, args, session, snapshot, submission, timing, poll, stability,
                   correlation, printed, result>>

\* lines 89-115 with the text drawn as both arguments
CallIsSameQuestion ==
    /\ call.fn = "input"
    /\ call' = [call EXCEPT !.fn = "_is_same_question",
                            !.args = <<call.args[1], call.args[1]>>]
    /\ returned' = _is_same_question(call.args[1], call.args[1])
    /\ UNCHANGED <<board_manager, pc, args, session, snapshot, submission, timing, poll, stability,
                   correlation, printed, result>>

\* lines 89-115 on a rendered text and a submitted text
CallIsSameQuestionOfPair ==
    /\ call.fn = "input"
    /\ Len(call.args) = 2
    /\ call' = [call EXCEPT !.fn = "_is_same_question"]
    /\ returned' = _is_same_question(call.args[1], call.args[2])
    /\ UNCHANGED <<board_manager, pc, args, session, snapshot, submission, timing, poll, stability,
                   correlation, printed, result>>

TextNext ==
    \/ CallNormalize
    \/ CallNormalizeAgain
    \/ CallIsSameQuestion
    \/ CallIsSameQuestionOfPair

TextSpec == TextInit /\ [][TextNext]_vars

(***************************************************************************)
(* The candidate selection of one poll called on its own, on assistant     *)
(* turns whose ids are not in document order.                              *)
(***************************************************************************)
\* the most assistant turns of one conversation
MaxAssistants == 2

\* The assistant turns a conversation may hold.  A read holds the normalized
\* inner text of a node, and a turn of a read has a text; the empty text is
\* there for line 367.
AssistantTurns ==
    {[type |-> "assistant", id |-> id, text |-> text] :
        id \in {<<"1", "0">>, <<"8">>, <<"9">>},
        text \in {<<>>, TextOld, TextNew, _normalize_text(TextMeta)}}

\* assistants, target_user_id, target_user_is_question_match, elapsed,
\* expects_json, previous_assistant_text_set
SelectInputs ==
    LET RECURSIVE Conversations(_)
        Conversations(len) ==
            IF len = 0 THEN {<<>>}
            ELSE Conversations(len - 1)
                 \cup {Append(conv, msg) :
                          conv \in Conversations(len - 1), msg \in AssistantTurns}
    IN  {<<assistants, target, is_match, el, expects, previous_texts>> :
            assistants \in Conversations(MaxAssistants),
            target \in {None, <<"1">>, <<"8">>},
            is_match \in BOOLEAN,
            el \in {19, 20},
            expects \in BOOLEAN,
            previous_texts \in {{}, {TextOld}}}

SelectInit ==
    /\ NoRound
    /\ NoSmartAdd
    /\ call \in {Input(arguments) : arguments \in SelectInputs}
    /\ returned = None

\* lines 360-379 on the inputs drawn
CallSelectCandidate ==
    /\ call.fn = "input"
    /\ call' = [call EXCEPT !.fn = "SelectCandidate"]
    /\ returned' = SelectCandidate(call.args[1], call.args[2], call.args[3],
                                   call.args[4], call.args[5], call.args[6])
    /\ UNCHANGED <<board_manager, pc, args, session, snapshot, submission, timing, poll, stability,
                   correlation, printed, result>>

SelectNext == CallSelectCandidate

SelectSpec == SelectInit /\ [][SelectNext]_vars

(***************************************************************************)
(* The stability detector over the polls of one loop, called on its own:   *)
(* what each poll found and when is kept, so that the count can be         *)
(* compared with the polls it counts.                                      *)
(***************************************************************************)
\* the most polls of one loop
MaxPolls == 3

\* What the candidate selection of a poll may hand over: no candidate, or an
\* assistant turn; two of the turns share their text and two their id.
FoundByPoll ==
    {NoCandidate,
     [id |-> <<"8">>, text |-> TextOld],
     [id |-> <<"8">>, text |-> TextNew],
     [id |-> <<"9", "5">>, text |-> TextNew]}

\* lines 324-326: no poll yet, stable_count = 0 and no recorded pair
StabilityInit ==
    /\ NoRound
    /\ NoSmartAdd
    /\ call = [fn |-> "Stability", args |-> <<>>, of_returned |-> FALSE]
    /\ returned = <<0, None, None, FALSE>>

\* lines 381-390 on one more poll of the loop, while no answer was returned
CallStability ==
    /\ call.fn = "Stability"
    /\ Len(call.args) < MaxPolls
    /\ ~returned[4]
    /\ \E found \in FoundByPoll,
          el \in IF call.args = <<>> THEN 0..MaxReadDelay
                 ELSE {call.args[Len(call.args)].elapsed + advance + delay :
                          advance \in 1..MaxSleepAdvance, delay \in 0..MaxReadDelay} :
          /\ call' = [call EXCEPT !.args = Append(@, [found |-> found, elapsed |-> el])]
          /\ returned' = Stability(found, returned[1], returned[2], returned[3], el)
    /\ UNCHANGED <<board_manager, pc, args, session, snapshot, submission, timing, poll, stability,
                   correlation, printed, result>>

StabilityNext == CallStability

StabilitySpec == StabilityInit /\ [][StabilityNext]_vars

(***************************************************************************)
(* _collect_conversation_sequence called on its own, on pages whose nodes  *)
(* may raise when read, hold only whitespace, or carry no id.              *)
(***************************************************************************)
\* the most nodes of such a page
MaxPageNodes == 3

\* Nodes the selector may find: two sound turns, a user turn of whitespace,
\* an assistant turn whose two id attributes are empty, an assistant node
\* that raises when read, and an assistant turn carrying both attributes.
DomNodes ==
    {Node("ym-ask-user-content", <<>>, <<"3">>, Rendered(QuestionPlain), FALSE),
     Node("ym-askai-container", <<"8">>, <<>>, TextNew, FALSE),
     Node("ym-ask-user-content", <<>>, <<"5">>, <<" ", "\n">>, FALSE),
     Node("ym-askai-container", <<>>, <<>>, TextOld, FALSE),
     Node("ym-askai-container", <<"9">>, <<>>, TextOld, TRUE),
     Node("ym-askai-container", <<"7">>, <<"9", "6">>, TextMeta, FALSE)}

\* the pages read: the nodes in document order, or a page that cannot be
\* queried
DomPages ==
    LET RECURSIVE NodeLists(_)
        NodeLists(len) ==
            IF len = 0 THEN {<<>>}
            ELSE NodeLists(len - 1)
                 \cup {Append(nodes, el) : nodes \in NodeLists(len - 1), el \in DomNodes}
    IN  {[reachable |-> reachable, nodes |-> nodes] :
            reachable \in BOOLEAN, nodes \in NodeLists(MaxPageNodes)}

ReadInit ==
    /\ NoRound
    /\ NoSmartAdd
    /\ call \in {Input(<<page>>) : page \in DomPages}
    /\ returned = None

\* lines 190-226 on the page drawn
CallCollect ==
    /\ call.fn = "input"
    /\ call' = [call EXCEPT !.fn = "_collect_conversation_sequence"]
    /\ returned' = _collect_conversation_sequence(call.args[1])
    /\ UNCHANGED <<board_manager, pc, args, session, snapshot, submission, timing, poll, stability,
                   correlation, printed, result>>

\* lines 190-226 once more on the same page; the list returned before is kept
CallCollectAgain ==
    /\ call.fn = "_collect_conversation_sequence"
    /\ ~call.of_returned
    /\ call' = [call EXCEPT !.args = <<call.args[1], returned>>, !.of_returned = TRUE]
    /\ returned' = _collect_conversation_sequence(call.args[1])
    /\ UNCHANGED <<board_manager, pc, args, session, snapshot, submission, timing, poll, stability,
                   correlation, printed, result>>

ReadNext == CallCollect \/ CallCollectAgain

ReadSpec == ReadInit /\ [][ReadNext]_vars

(***************************************************************************)
(* smart_add_board of scripts/board_manager.py.  A round of ask_youmind is *)
(* one step that returns None or an answer; an answer is known by what     *)
(* _extract_json_block and _metadata_from_discovery find in it.            *)
(***************************************************************************)
\* A board URL: the board, and whether the query holds a material-id or
\* craft-id.
BoardUrls == {[board |-> b, context_id |-> c] : b \in {"A", "B"}, c \in BOOLEAN}

\* lines 24-40: the context ids are dropped
normalize_board_url(url) == [url EXCEPT !.context_id = FALSE]

\* The answers of a round: JSON with topics, JSON without usable topics, prose
\* with English terms, prose without any.
Answers ==
    {<<"json">>, <<"json without topics">>, <<"prose">>, <<"prose without terms">>}

\* lines 142-159: whether a JSON object is found in the answer
_extract_json_block(answer) == answer \in {<<"json">>, <<"json without topics">>}

\* Two names of boards: "A" has the slug "a", and "a 2" the slug "a-2" that
\* is the id of the second board named "A".
NameA == <<"A">>
NameA2 == <<"a", " ", "2">>

\* lines 209-278: the name of the payload, failing that one made up from the
\* answer or the URL; the topics of the payload, failing that the English
\* terms of the answer, failing that "youmind", "board"
_metadata_from_discovery(answer) ==
    [name |-> IF answer = <<"json">> THEN NameA
              ELSE <<"y", "o", "u", "m", "i", "n", "d", "-", "b", "o", "a", "r", "d", "-", "x">>,
     topics |->
        IF answer = <<"json">> THEN <<"topic1", "topic2">>
        ELSE IF answer \in {<<"json without topics">>, <<"prose">>} THEN <<"term">>
        ELSE <<"youmind", "board">>]

(***************************************************************************)
(* BoardLibrary.  A dict is the sequence of its entries in insertion      *)
(* order.                                                                  *)
(***************************************************************************)
Keys(boards) == {boards[i].key : i \in 1..Len(boards)}

\* boards[key]
GetItem(boards, key) ==
    boards[CHOOSE i \in 1..Len(boards) : boards[i].key = key].board

\* boards[key] = board: a present key keeps its place
SetItem(boards, key, board) ==
    IF key \in Keys(boards)
    THEN [i \in 1..Len(boards) |->
             IF boards[i].key = key THEN [key |-> key, board |-> board] ELSE boards[i]]
    ELSE Append(boards, [key |-> key, board |-> board])

\* del boards[key]
DelItem(boards, key) == SelectSeq(boards, LAMBDA entry : entry.key # key)

\* lines 16-21: strip and lower, each run of characters outside [a-z0-9]
\* replaced by "-", the runs of "-" collapsed, .strip("-"), or "board"
slugify(value) ==
    LET IsSlugChar(c) == c \in Range(LowerLetters) \cup Range(Digits)
        RECURSIVE DropNonSlug(_)
        DropNonSlug(s) ==
            IF s = <<>> \/ IsSlugChar(Head(s)) THEN s ELSE DropNonSlug(Tail(s))
        RECURSIVE DashNonSlug(_)
        DashNonSlug(s) ==
            IF s = <<>> THEN <<>>
            ELSE IF IsSlugChar(Head(s)) THEN <<Head(s)>> \o DashNonSlug(Tail(s))
            ELSE <<"-">> \o DashNonSlug(DropNonSlug(Tail(s)))
        RECURSIVE CollapseDashes(_)
        CollapseDashes(s) ==
            IF Len(s) < 2 THEN s
            ELSE IF Head(s) = "-" /\ s[2] = "-" THEN CollapseDashes(Tail(s))
            ELSE <<Head(s)>> \o CollapseDashes(Tail(s))
        RECURSIVE StripDashes(_)
        StripDashes(s) ==
            IF s = <<>> THEN s
            ELSE IF Head(s) = "-" THEN StripDashes(Tail(s))
            ELSE IF s[Len(s)] = "-" THEN StripDashes(SubSeq(s, 1, Len(s) - 1))
            ELSE s
        slug == StripDashes(CollapseDashes(DashNonSlug(Lower(Strip(value)))))
    IN  IF slug = <<>> THEN <<"b", "o", "a", "r", "d">> ELSE slug

\* _ensure_unique_id that tries base_id-2 only
_ensure_unique_id_once(boards, base_id) ==
    IF base_id \notin Keys(boards) THEN base_id
    ELSE base_id \o <<"-", "2">>

\* lines 89-96: str(idx), and the first idx from 2 on with base_id-idx not a
\* key
_ensure_unique_id(boards, base_id) ==
    LET RECURSIVE Decimal(_)
        Decimal(n) ==
            IF n < 10 THEN <<Digits[n + 1]>>
            ELSE Decimal(n \div 10) \o <<Digits[(n % 10) + 1]>>
        RECURSIVE FreeIndex(_)
        FreeIndex(idx) ==
            IF (base_id \o <<"-">> \o Decimal(idx)) \in Keys(boards)
            THEN FreeIndex(idx + 1)
            ELSE idx
    IN  IF base_id \notin Keys(boards) THEN base_id
        ELSE base_id \o <<"-">> \o Decimal(FreeIndex(2))

\* lines 72-79
_save_library(lib) ==
    [lib EXCEPT !.library_file =
        [boards |-> lib.boards, active_board_id |-> lib.active_board_id]]

\* lines 81-87: the place of the first board with this normalized URL, 0 for
\* None
find_board_by_url(boards, url) ==
    LET same == {i \in 1..Len(boards) :
                    normalize_board_url(boards[i].board.url) = normalize_board_url(url)}
    IN  IF same = {} THEN 0 ELSE CHOOSE i \in same : \A j \in same : i <= j

\* lines 98-132: the library after the call; the board added is the last
\* entry
add_board(lib, url, name, topics) ==
    LET board_id == _ensure_unique_id(lib.boards, slugify(name))
        board == [id |-> board_id, url |-> normalize_board_url(url), name |-> name,
                  topics |-> topics, use_count |-> 0]
        boards == SetItem(lib.boards, board_id, board)
    IN  _save_library([lib EXCEPT
                          !.boards = boards,
                          !.active_board_id =
                              IF Len(boards) = 1 THEN board_id ELSE @])

\* lines 475-484, for a board_id that is a key
activate_board(lib, board_id) ==
    _save_library([lib EXCEPT !.active_board_id = board_id])

\* the libraries a call may find: empty, or one board stored earlier
Libraries ==
    {NoLibrary}
    \cup {add_board(NoLibrary, [board |-> b, context_id |-> FALSE], <<"a">>,
                    <<"stored">>) : b \in {"A", "B"}}

\* lines 280-288 and 313-318: the arguments and the locals at the call
Frame(url, activate, single_pass, allow_duplicate_url) ==
    [pc |-> "find", url |-> url, activate |-> activate, single_pass |-> single_pass,
     allow_duplicate_url |-> allow_duplicate_url,
     asked |-> <<>>,
     summary_answer |-> None, structured_answer |-> None,
     metadata |-> None, discovery_used |-> None, status |-> "running"]

SmartAddInit ==
    /\ NoRound
    /\ call = NoCall
    /\ returned = None
    /\ library \in Libraries
    /\ smart_add \in {Frame(url, activate, single_pass, allow_duplicate_url) :
                        url \in BoardUrls, activate \in BOOLEAN,
                        single_pass \in BOOLEAN, allow_duplicate_url \in BOOLEAN}

\* FindExisting that does not look for the URL in the library
FindExistingSkipped ==
    /\ smart_add.pc = "find"
    /\ smart_add' = [smart_add EXCEPT
                        !.pc = IF smart_add.single_pass THEN "single_pass" ELSE "pass_1"]
    /\ UNCHANGED <<library, calls, pc, args, session, snapshot, submission, timing, poll,
                   stability, correlation, printed, result>>

\* lines 297-306
FindExisting ==
    /\ smart_add.pc = "find"
    /\ \E existing \in {find_board_by_url(library.boards, smart_add.url)} :
          IF existing # 0 /\ ~smart_add.allow_duplicate_url
          THEN /\ library' = IF smart_add.activate
                             THEN activate_board(library,
                                                 library.boards[existing].board.id)
                             ELSE library
               /\ smart_add' = [smart_add EXCEPT !.pc = "done", !.status = "exists"]
          ELSE /\ smart_add' = [smart_add EXCEPT
                                   !.pc = IF smart_add.single_pass
                                          THEN "single_pass" ELSE "pass_1"]
               /\ UNCHANGED library
    /\ UNCHANGED <<calls, pc, args, session, snapshot, submission, timing, poll,
                   stability, correlation, printed, result>>

\* lines 361-380: the round of the single pass
AskSinglePass ==
    /\ smart_add.pc = "single_pass"
    /\ \E answer \in Answers \cup {None} :
          smart_add' =
             IF answer # None /\ _metadata_from_discovery(answer).topics # <<>>
             THEN [smart_add EXCEPT
                      !.asked = Append(@, [question |-> "structured", answer |-> answer]),
                      !.structured_answer = answer,
                      !.metadata = _metadata_from_discovery(answer),
                      !.discovery_used = "single_pass_structured",
                      !.pc = "add"]
             ELSE [smart_add EXCEPT
                      !.asked = Append(@, [question |-> "structured", answer |-> answer]),
                      !.structured_answer = answer,
                      !.pc = "pass_1"]
    /\ UNCHANGED <<library, calls, pc, args, session, snapshot, submission, timing, poll,
                   stability, correlation, printed, result>>

\* lines 322-329: the summary round of run_two_pass
AskSummary ==
    /\ smart_add.pc = "pass_1"
    /\ \E answer \in Answers \cup {None} :
          smart_add' =
             IF answer = None
             THEN [smart_add EXCEPT
                      !.asked = Append(@, [question |-> "summary", answer |-> answer]),
                      !.status = "RuntimeError",
                      !.pc = "done"]
             ELSE [smart_add EXCEPT
                      !.asked = Append(@, [question |-> "summary", answer |-> answer]),
                      !.summary_answer = answer,
                      !.pc = "pass_2"]
    /\ UNCHANGED <<library, calls, pc, args, session, snapshot, submission, timing, poll,
                   stability, correlation, printed, result>>

\* lines 331-353: the JSON round of run_two_pass and its result
AskStructured ==
    /\ smart_add.pc = "pass_2"
    /\ \E answer \in Answers \cup {None} :
          smart_add' =
             IF answer # None /\ _extract_json_block(answer)
             THEN [smart_add EXCEPT
                      !.asked = Append(@, [question |-> "structured from summary",
                                           answer |-> answer]),
                      !.structured_answer = answer,
                      !.metadata = _metadata_from_discovery(answer),
                      !.discovery_used = "two_pass_json",
                      !.pc = "add"]
             ELSE [smart_add EXCEPT
                      !.asked = Append(@, [question |-> "structured from summary",
                                           answer |-> answer]),
                      !.structured_answer = answer,
                      !.metadata = _metadata_from_discovery(smart_add.summary_answer),
                      !.discovery_used = "two_pass_fallback_summary",
                      !.pc = "add"]
    /\ UNCHANGED <<library, calls, pc, args, session, snapshot, submission, timing, poll,
                   stability, correlation, printed, result>>

\* lines 382-399
AddDiscovered ==
    /\ smart_add.pc = "add"
    /\ IF smart_add.metadata.topics = <<>>
       THEN /\ smart_add' = [smart_add EXCEPT !.status = "RuntimeError", !.pc = "done"]
            /\ UNCHANGED library
       ELSE /\ \E added \in {add_board(library, smart_add.url, smart_add.metadata.name,
                                         smart_add.metadata.topics)} :
                  library' = IF smart_add.activate
                             THEN activate_board(added,
                                                 added.boards[Len(added.boards)].board.id)
                             ELSE added
            /\ smart_add' = [smart_add EXCEPT !.status = "added", !.pc = "done"]
    /\ UNCHANGED <<calls, pc, args, session, snapshot, submission, timing, poll,
                   stability, correlation, printed, result>>

SmartAddNext ==
    \/ FindExisting
    \/ AskSinglePass
    \/ AskSummary
    \/ AskStructured
    \/ AddDiscovered

SmartAddSpec == SmartAddInit /\ [][SmartAddNext]_vars

(***************************************************************************)
(* The library operations of BoardLibrary, called in any order on a       *)
(* library constructed empty.  call.others_called tells whether          *)
(* update_board, increment_use_count or import_library was ever called.   *)
(***************************************************************************)
\* the most boards add_board is called on, and the most uses counted in all
MaxBoards == 2
MaxUses == 1

\* the names the calls give to add_board, and the ids given to the calls
\* that take one: the ids the names can get, and one of the import files
BoardNames == {NameA, NameA2}
BoardIds ==
    {<<"a">>, <<"a", "-", "2">>, <<"a", "-", "3">>, <<"a", "-", "2", "-", "2">>,
     <<"b", "o", "a", "r", "d">>, <<"z">>}

\* remove_board that leaves active_board_id as it is
remove_board_keeping_active(lib, board_id) ==
    IF board_id \notin Keys(lib.boards) THEN [lib |-> lib, returned |-> FALSE]
    ELSE [lib |-> _save_library([lib EXCEPT !.boards = DelItem(@, board_id)]),
          returned |-> TRUE]

\* lines 401-413: the library after the call and the value returned
remove_board(lib, board_id) ==
    IF board_id \notin Keys(lib.boards) THEN [lib |-> lib, returned |-> FALSE]
    ELSE LET boards == DelItem(lib.boards, board_id)
         IN  [lib |-> _save_library(
                         [lib EXCEPT
                             !.boards = boards,
                             !.active_board_id =
                                 IF @ # board_id THEN @
                                 ELSE IF boards = <<>> THEN None
                                 ELSE boards[1].key]),
              returned |-> TRUE]

\* lines 415-450, for a board_id that is a key; of the fields a call may give,
\* the name and the topics (None for a field not given)
update_board(lib, board_id, name, topics) ==
    LET board == GetItem(lib.boards, board_id)
    IN  _save_library(
            [lib EXCEPT !.boards =
                SetItem(@, board_id,
                        [board EXCEPT
                            !.name = IF name # None THEN name ELSE @,
                            !.topics = IF topics # None THEN topics ELSE @])])

\* lines 491-499, for a board_id that is a key
increment_use_count(lib, board_id) ==
    LET board == GetItem(lib.boards, board_id)
    IN  _save_library(
            [lib EXCEPT !.boards =
                SetItem(@, board_id, [board EXCEPT !.use_count = @ + 1])])

\* The files given to import_library: one that does not exist, one without
\* "boards", and exports of other libraries.
ImportEntry(id) ==
    [key |-> id,
     board |-> [id |-> id, url |-> [board |-> "B", context_id |-> FALSE],
                name |-> <<"i", "m", "p", "o", "r", "t", "e", "d">>,
                topics |-> <<"other">>, use_count |-> 0]]
ImportFiles ==
    {[exists |-> FALSE, has_boards |-> FALSE, boards |-> <<>>, active_board_id |-> None],
     [exists |-> TRUE, has_boards |-> FALSE, boards |-> <<>>, active_board_id |-> <<"a">>],
     [exists |-> TRUE, has_boards |-> TRUE,
      boards |-> <<ImportEntry(<<"z">>), ImportEntry(<<"a">>)>>, active_board_id |-> <<"z">>],
     [exists |-> TRUE, has_boards |-> TRUE,
      boards |-> <<ImportEntry(<<"a">>)>>, active_board_id |-> <<"q">>]}

\* ApplyImport that stores every imported board, merge or not
RECURSIVE ApplyImportOverwriting(_, _, _)
ApplyImportOverwriting(boards, imported_boards, merge) ==
    IF imported_boards = <<>> THEN boards
    ELSE ApplyImportOverwriting(
             SetItem(boards, Head(imported_boards).key, Head(imported_boards).board),
             Tail(imported_boards), merge)

\* lines 625-640: the boards after the loop over the imported ones
RECURSIVE ApplyImport(_, _, _)
ApplyImport(boards, imported_boards, merge) ==
    IF imported_boards = <<>> THEN boards
    ELSE ApplyImport(
             IF ~merge /\ Head(imported_boards).key \in Keys(boards) THEN boards
             ELSE SetItem(boards, Head(imported_boards).key, Head(imported_boards).board),
             Tail(imported_boards), merge)

\* lines 568-649: the library after the call and the error raised, if any
import_library(lib, file, merge, dry_run) ==
    IF ~file.exists THEN [lib |-> lib, raised |-> "FileNotFoundError"]
    ELSE IF ~file.has_boards THEN [lib |-> lib, raised |-> "ValueError"]
    ELSE IF dry_run THEN [lib |-> lib, raised |-> "no"]
    ELSE LET boards == ApplyImport(lib.boards, file.boards, merge)
             imported_active_id == file.active_board_id
         IN  [lib |-> _save_library(
                         [lib EXCEPT
                             !.boards = boards,
                             !.active_board_id =
                                 IF /\ imported_active_id \notin {None, <<>>}
                                    /\ @ \in {None, <<>>}
                                    /\ imported_active_id \in Keys(boards)
                                 THEN imported_active_id
                                 ELSE @]),
              raised |-> "no"]

LibraryInit ==
    /\ NoRound
    /\ NoSmartAdd
    /\ call = [fn |-> "none", args |-> <<>>, of_returned |-> FALSE, others_called |-> FALSE]
    /\ returned = None

AddBoard ==
    /\ Len(library.boards) < MaxBoards
    /\ \E name \in BoardNames :
          library' = add_board(library, [board |-> "A", context_id |-> TRUE], name,
                               <<"topic">>)
    /\ UNCHANGED call
    /\ UNCHANGED <<smart_add, returned, pc, args, session, snapshot, submission, timing, poll,
                   stability, correlation, printed, result>>

RemoveBoard ==
    /\ \E board_id \in BoardIds : library' = remove_board(library, board_id).lib
    /\ UNCHANGED call
    /\ UNCHANGED <<smart_add, returned, pc, args, session, snapshot, submission, timing, poll,
                   stability, correlation, printed, result>>

\* lines 475-484: ValueError for a board_id that is not a key
ActivateBoard ==
    /\ \E board_id \in BoardIds :
          library' = IF board_id \notin Keys(library.boards) THEN library
                     ELSE activate_board(library, board_id)
    /\ UNCHANGED call
    /\ UNCHANGED <<smart_add, returned, pc, args, session, snapshot, submission, timing, poll,
                   stability, correlation, printed, result>>

\* lines 415-450: ValueError for a board_id that is not a key
UpdateBoard ==
    /\ \E board_id \in BoardIds :
       \E edit \in {<<<<"a">>, None>>} :
          library' = IF board_id \notin Keys(library.boards) THEN library
                     ELSE update_board(library, board_id, edit[1], edit[2])
    /\ call' = [call EXCEPT !.others_called = TRUE]
    /\ UNCHANGED <<smart_add, returned, pc, args, session, snapshot, submission, timing, poll,
                   stability, correlation, printed, result>>

\* lines 491-499: ValueError for a board_id that is not a key
IncrementUseCount ==
    /\ \E board_id \in BoardIds :
          IF board_id \notin Keys(library.boards) THEN UNCHANGED library
          ELSE /\ LET RECURSIVE Uses(_)
                       Uses(boards) ==
                           IF boards = <<>> THEN 0
                           ELSE Head(boards).board.use_count + Uses(Tail(boards))
                  IN  Uses(library.boards) < MaxUses
               /\ library' = increment_use_count(library, board_id)
    /\ call' = [call EXCEPT !.others_called = TRUE]
    /\ UNCHANGED <<smart_add, returned, pc, args, session, snapshot, submission, timing, poll,
                   stability, correlation, printed, result>>

ImportLibrary ==
    /\ \E file \in ImportFiles : \E merge \in BOOLEAN : \E dry_run \in BOOLEAN :
          library' = import_library(library, file, merge, dry_run).lib
    /\ call' = [call EXCEPT !.others_called = TRUE]
    /\ UNCHANGED <<smart_add, returned, pc, args, session, snapshot, submission, timing, poll,
                   stability, correlation, printed, result>>

LibraryNext ==
    \/ AddBoard
    \/ RemoveBoard
    \/ ActivateBoard
    \/ UpdateBoard
    \/ IncrementUseCount
    \/ ImportLibrary

LibrarySpec == LibraryInit /\ [][LibraryNext]_vars

(***************************************************************************)
(* _clean_discovery_answer of scripts/board_manager.py, called on its own *)
(* on an answer of ask_youmind, on a text as it is, and on the value it    *)
(* returned.                                                               *)
(***************************************************************************)
\* line 136
DiscoveryMarker ==
    <<
       "E", "X", "T", "R", "E", "M", "E", "L", "Y", " ", "I", "M", "P", "O",
       "R", "T", "A", "N", "T", ":", " ", "I", "s", " ", "t", "h", "a", "t",
       " ", "A", "L", "L", " ", "y", "o", "u", " ", "n", "e", "e", "d", " ",
       "t", "o", " ", "k", "n", "o", "w", "?"
    >>

\* _clean_discovery_answer that does not strip
_clean_discovery_answer_unstripped(answer) ==
    LET at == {i \in 1..(Len(answer) - Len(DiscoveryMarker) + 1) :
                  SubSeq(answer, i, i + Len(DiscoveryMarker) - 1) = DiscoveryMarker}
    IN  IF at = {} THEN answer
        ELSE SubSeq(answer, 1, (CHOOSE i \in at : \A j \in at : i <= j) - 1)

\* lines 134-139: at, the places where the marker occurs; split(marker, 1)[0]
\* is what precedes the first
_clean_discovery_answer(answer) ==
    LET at == {i \in 1..(Len(answer) - Len(DiscoveryMarker) + 1) :
                  SubSeq(answer, i, i + Len(DiscoveryMarker) - 1) = DiscoveryMarker}
    IN  IF at = {} THEN Strip(answer)
        ELSE Strip(SubSeq(answer, 1, (CHOOSE i \in at : \A j \in at : i <= j) - 1))

\* Answers besides the short texts: one with whitespace around it, one that
\* ends with the marker less its last character, one that holds the marker,
\* one that holds it twice.
AnswerSamples ==
    {<<" ", "\n", "o", "k", " ", "\t", "\n">>,
     <<"o", "k", " ">> \o SubSeq(DiscoveryMarker, 1, Len(DiscoveryMarker) - 1),
     <<"o", "k", " ">> \o DiscoveryMarker \o <<" ", "n", "o">>,
     DiscoveryMarker \o <<"a">> \o DiscoveryMarker}

CleanInit ==
    /\ NoRound
    /\ NoSmartAdd
    /\ call \in {Input(<<t>>) : t \in Texts(MaxTextLen) \cup AnswerSamples}
    /\ returned = None

\* ask_question.py line 386 and board_manager.py lines 134-139: the answer
\* as ask_youmind returns it, cleaned
CallCleanAnswer ==
    /\ call.fn = "input"
    /\ call' = [fn |-> "_clean_discovery_answer",
                args |-> <<call.args[1], Answer(call.args[1])>>, of_returned |-> FALSE]
    /\ returned' = _clean_discovery_answer(Answer(call.args[1]))
    /\ UNCHANGED <<board_manager, pc, args, session, snapshot, submission, timing, poll, stability,
                   correlation, printed, result>>

\* lines 134-139 on the text as it is
CallCleanText ==
    /\ call.fn = "input"
    /\ call' = [fn |-> "_clean_discovery_answer",
                args |-> <<call.args[1], call.args[1]>>, of_returned |-> FALSE]
    /\ returned' = _clean_discovery_answer(call.args[1])
    /\ UNCHANGED <<board_manager, pc, args, session, snapshot, submission, timing, poll, stability,
                   correlation, printed, result>>

\* lines 134-139 on the value the call before returned
CallCleanAgain ==
    /\ call.fn = "_clean_discovery_answer"
    /\ ~call.of_returned
    /\ call' = [call EXCEPT !.args = <<call.args[1], returned>>, !.of_returned = TRUE]
    /\ returned' = _clean_discovery_answer(returned)
    /\ UNCHANGED <<board_manager, pc, args, session, snapshot, submission, timing, poll, stability,
                   correlation, printed, result>>

CleanNext ==
    \/ CallCleanAnswer
    \/ CallCleanText
    \/ CallCleanAgain

CleanSpec == CleanInit /\ [][CleanNext]_vars

\* The round runs step by step to its end.
FairSpec == Spec /\ WF_vars(Next)

(***************************************************************************)
(* Properties.                                                             *)
(***************************************************************************)
\* the matching user ids of the last read that lie above the baseline
MatchingAboveBaseline == {id \in matching_user_ids : StrLess(baseline_max_user_id, id)}

\* the user ids of the last read that lie above the baseline
UsersAboveBaseline == {id \in user_ids : StrLess(baseline_max_user_id, id)}

\* C1: target_user_id is at every poll unset or strictly greater than
\* baseline_max_user_id, whichever path set it.
C1_TargetAboveBaseline ==
    target_user_id = None \/ StrLess(baseline_max_user_id, target_user_id)

\* A read held a matching user turn at or below the baseline "5" and the
\* target is set.
C1_Witness ==
    /\ baseline_max_user_id = <<"5">>
    /\ <<"3">> \in matching_user_ids
    /\ target_user_id # None

\* C2: a success is returned only on a poll where stable_count >= 2, the
\* candidate read equals the recorded pair, and at least 3 seconds elapsed;
\* a count of 2 or more before 3 seconds returns nothing.
C2_SuccessOnlyWhenStable ==
    /\ result # None =>
          /\ stable_count >= 2
          /\ elapsed >= 3
          /\ candidate = last_text
          /\ candidate_id = last_candidate_id
    /\ (stable_count >= 2 /\ elapsed < 3) => result = None

\* A success whose count had passed 2 before the third second.
C2_Witness == result # None /\ stable_count >= 3

\* C3: a round that ended by the deadline returns no text, whatever
\* candidate was recorded.
C3_TimeoutReturnsNoText == printed = "timeout" => result = None

\* A timeout with a candidate recorded once, and not confirmed stable.
C3_Witness ==
    /\ pc = "done"
    /\ printed = "timeout"
    /\ last_text # None
    /\ stable_count = 1

\* C4: once the loop is entered the round ends, in a success or, at or after
\* the deadline, in a timeout without text.
C4_LoopTerminates ==
    (pc = "loop") ~>
        (/\ pc = "done"
         /\ \/ printed = "got-answer" /\ result # None
            \/ printed = "timeout" /\ result = None /\ clock >= deadline)

\* A timeout of a round in which no candidate ever appeared.
C4_Witness ==
    /\ pc = "done"
    /\ printed = "timeout"
    /\ result = None
    /\ last_text = None
    /\ clock >= deadline

\* C5: when the round has returned, a driver that was started has been
\* stopped and a context that was opened has been closed.
C5_SessionReleased ==
    pc = "done" =>
        /\ playwright => playwright_stopped
        /\ context => context_closed

\* The launch of the context raised after the driver was started.
C5_Witness ==
    /\ pc = "done"
    /\ playwright
    /\ ~context
    /\ playwright_stopped
    /\ printed = "error"

\* C6 as claimed: once target_user_id is set, no later poll makes it smaller
\* (or unsets it).
C6_TargetNeverMovesBack ==
    [][target_user_id # None =>
          /\ target_user_id' # None
          /\ ~StrLess(target_user_id', target_user_id)]_vars

\* C7: after a poll whose read held a matching user turn above the baseline,
\* target_user_id is the greatest such id and the match is confirmed.
C7_PrimaryMatch ==
    MatchingAboveBaseline # {} =>
        /\ target_user_id = StrMax(MatchingAboveBaseline)
        /\ target_user_is_question_match

\* Baseline "5"; the read held matching user turns "3" and "7".
C7_Witness ==
    /\ baseline_max_user_id = <<"5">>
    /\ matching_user_ids = {<<"3">>, <<"7">>}
    /\ target_user_id = <<"7">>
    /\ target_user_is_question_match

\* C8: on a poll without a primary match the target changes only from unset,
\* only at 20 seconds or later, and to the greatest user id above the
\* baseline, unconfirmed; and at 20 seconds or later it is so set.
C8_Fallback ==
    [][(pc = "loop" /\ MatchingAboveBaseline' = {}) =>
          /\ target_user_id' # target_user_id =>
                /\ target_user_id = None
                /\ elapsed' >= 20
                /\ UsersAboveBaseline' # {}
                /\ target_user_id' = StrMax(UsersAboveBaseline')
                /\ ~target_user_is_question_match'
          /\ (target_user_id = None /\ elapsed' >= 20 /\ UsersAboveBaseline' # {}) =>
                target_user_id' = StrMax(UsersAboveBaseline')]_vars

\* Baseline "5"; the read held the user turns "5" and "9", none matching.
C8_Witness ==
    /\ baseline_max_user_id = <<"5">>
    /\ user_ids = {<<"5">>, <<"9">>}
    /\ matching_user_ids = {}
    /\ target_user_id = <<"9">>
    /\ ~target_user_is_question_match
    /\ elapsed >= 20

\* C9 as claimed: the text returned is never the text of an assistant turn
\* of the snapshot taken before the submission.
C9_NeverReturnsSnapshotText ==
    result # None => candidate \notin previous_assistant_text_set

\* C10: when the question does not request structured output, the candidate
\* is never a text that holds the three quoted keys.
C10_MetadataSuppressed ==
    (candidate # None /\ ~_question_requests_json(question)) =>
        ~_looks_like_metadata_json(candidate)

\* The question requests JSON and a text with the three keys is returned.
C10_Witness ==
    /\ _question_requests_json(question)
    /\ candidate # None
    /\ _looks_like_metadata_json(candidate)
    /\ result = candidate \o FOLLOW_UP_REMINDER

\* C11: once the loop is entered the deadline is the larger of 30 and the
\* requested timeout, for every requested value (zero, negative and below 30
\* included), and a round ends in timeout only when at least 30 seconds and
\* at least the requested number of seconds have passed since the submission.
C11_DeadlineFloor ==
    /\ pc \in {"loop", "sleep"} =>
          /\ deadline >= 30
          /\ deadline >= timeout_seconds
          /\ deadline \in {30, timeout_seconds}
    /\ printed = "timeout" =>
          /\ clock >= 30
          /\ clock >= timeout_seconds

\* A negative requested timeout; the round polled and ended in timeout.
C11_Witness ==
    /\ timeout_seconds < 0
    /\ printed = "timeout"
    /\ deadline = 30
    /\ pc = "done"

\* C12: the step after a poll is the same whatever the busy indicator read:
\* for each of the two readings it is the step the code takes, it leads back
\* to the loop test, and it changes neither the outcome nor the stability and
\* correlation state.
C12_BusyNeverGates ==
    [][pc = "sleep" =>
          /\ \A is_thinking \in BOOLEAN :
                \E advance \in 1..MaxSleepAdvance : SleepStep(is_thinking, advance)
          /\ pc' = "loop"
          /\ UNCHANGED <<printed, result, stability, correlation, submission>>]_vars

\* The loop went on after a poll that recorded a first candidate.
C12_Witness ==
    /\ pc = "loop"
    /\ clock > 0
    /\ stable_count = 1
    /\ last_text # None
    /\ candidate = None
    /\ printed = "nothing"

C14_SetupFailureFatal ==
    /\ printed \in {"not-authenticated", "redirected-to-sign-in", "input-not-found"} =>
          /\ ~typed
          /\ enter_presses = 0
          /\ send_clicks = <<>>
          /\ deadline = 0
          /\ result = None
          /\ pc \in {"finally_context", "finally_playwright", "done"}
    /\ printed = "input-not-found" =>
          /\ input_selector = 0
          /\ \A s \in 1..NumInputSelectors : s \notin visible_inputs

\* No input selector was visible; the round ended and released the session.
C14_Witness ==
    /\ printed = "input-not-found"
    /\ visible_inputs = {}
    /\ pc = "done"
    /\ ~typed

\* C15: the text returned is the candidate of the returning poll, which is
\* the stable text, followed by the reminder; after the return nothing is
\* read, correlated or compared any more.
C15_AnswerIsCandidatePlusReminder ==
    [][/\ result' # None =>
             /\ candidate' # None
             /\ candidate' = last_text'
             /\ result' = candidate' \o FOLLOW_UP_REMINDER
             /\ SubSeq(result', 1, Len(candidate')) = candidate'
             /\ SubSeq(result', Len(candidate') + 1, Len(result')) = FOLLOW_UP_REMINDER
       /\ result # None =>
             UNCHANGED <<result, timing, poll, stability, correlation>>]_vars

\* The answer TextNew was returned and the round ended.
C15_Witness ==
    /\ pc = "done"
    /\ candidate = TextNew
    /\ result # None
    /\ Len(result) = Len(TextNew) + Len(FOLLOW_UP_REMINDER)

\* C16: when the loop has started, Enter was pressed once and the send
\* selectors were tried once each in priority order up to the first one that
\* clicked; from then on no submission action occurs.
C16_SingleSubmission ==
    [][/\ pc' \in {"loop", "sleep"} =>
             /\ typed'
             /\ enter_presses' = 1
             /\ Len(send_clicks') \in 1..NumSendSelectors
             /\ \A i \in 1..Len(send_clicks') : send_clicks'[i] = i
             /\ \A i \in 1..(Len(send_clicks') - 1) : send_buttons[i] # "clicked"
             /\ Len(send_clicks') < NumSendSelectors =>
                   send_buttons[Len(send_clicks')] = "clicked"
       /\ pc \in {"loop", "sleep"} => UNCHANGED submission]_vars

\* The first send selector raised, the second matched nothing, the third
\* clicked; the loop is running.
C16_Witness ==
    /\ pc = "loop"
    /\ send_buttons = <<"raises", "missed", "clicked">>
    /\ send_clicks = <<1, 2, 3>>
    /\ enter_presses = 1
    /\ clock > 0

\* C17: the text returned by _normalize_text has no whitespace at either end
\* and no two adjacent whitespace characters, and _normalize_text applied to
\* a text it returned gives that text back.
C17_NormalizeIdempotent ==
    call.fn = "_normalize_text" =>
        /\ returned # <<>> =>
              /\ ~IsSpace(returned[1])
              /\ ~IsSpace(returned[Len(returned)])
        /\ \A i \in 1..(Len(returned) - 1) :
              ~(IsSpace(returned[i]) /\ IsSpace(returned[i + 1]))
        /\ call.of_returned => returned = call.args[1]

\* _normalize_text was applied to " a\n", returned "a", and applied to "a".
C17_Witness ==
    /\ call.fn = "_normalize_text"
    /\ call.of_returned
    /\ call.args[1] = <<"a">>
    /\ returned = <<"a">>

\* C18: _is_same_question(x, x) is true for every x whose normalized form is
\* not empty.
C18_SameQuestionReflexive ==
    (/\ call.fn = "_is_same_question"
     /\ call.args[2] = call.args[1]
     /\ _normalize_text(call.args[1]) # <<>>) =>
        returned = TRUE

\* x is "?\n?", which holds no letter or digit; _is_same_question(x, x)
\* returned true.
C18_Witness ==
    /\ call.fn = "_is_same_question"
    /\ call.args[1] = <<"?", "\n", "?">>
    /\ call.args[2] = call.args[1]
    /\ returned = TRUE

\* C20: with no target there is no candidate; with a target the candidate is
\* an assistant turn above the target whose text is not empty, is not of
\* metadata shape unless JSON was requested, and is not a snapshot text while
\* the target is unconfirmed and less than 20 seconds have passed, such that
\* no other such turn has a smaller id; and there is no candidate exactly
\* when there is no such turn.
C20_CandidateSelection ==
    call.fn = "SelectCandidate" =>
        LET assistants == call.args[1]
            target == call.args[2]
            is_match == call.args[3]
            el == call.args[4]
            expects == call.args[5]
            previous_texts == call.args[6]
            qualifies == {i \in 1..Len(assistants) :
                /\ target # None
                /\ StrLess(target, assistants[i].id)
                /\ assistants[i].text # <<>>
                /\ (_looks_like_metadata_json(assistants[i].text) => expects)
                /\ ((~is_match /\ el < 20) => assistants[i].text \notin previous_texts)}
        IN  IF qualifies = {}
            THEN returned = NoCandidate
            ELSE \E i \in qualifies :
                    /\ returned = [id |-> assistants[i].id, text |-> assistants[i].text]
                    /\ \A j \in qualifies : ~StrLess(assistants[j].id, assistants[i].id)

\* The assistants are "9" then "10" in document order, both above the target
\* "1" and both with an eligible text; the candidate is "10".
C20_Witness ==
    /\ call.fn = "SelectCandidate"
    /\ call.args[2] = <<"1">>
    /\ Len(call.args[1]) = 2
    /\ call.args[1][1].id = <<"9">>
    /\ call.args[1][1].text = TextNew
    /\ call.args[1][2].id = <<"1", "0">>
    /\ call.args[1][2].text = TextOld
    /\ returned = [id |-> <<"1", "0">>, text |-> TextOld]

\* C22: on a poll that yields a candidate, the count goes up by one and the
\* recorded pair stays when the candidate's id and text are the recorded ones;
\* otherwise the count becomes 1 and the candidate becomes the recorded pair.
C22_CounterUpdate ==
    [][(pc = "loop" /\ candidate' # None) =>
          IF candidate_id' = last_candidate_id /\ candidate' = last_text
          THEN /\ stable_count' = stable_count + 1
               /\ UNCHANGED <<last_candidate_id, last_text>>
          ELSE /\ stable_count' = 1
               /\ last_candidate_id' = candidate_id'
               /\ last_text' = candidate']_vars

\* The recorded pair was read again within the first 3 seconds: the count is
\* 2 and the loop goes on.
C22_Witness ==
    /\ pc = "sleep"
    /\ stable_count = 2
    /\ candidate # None
    /\ candidate = last_text
    /\ candidate_id = last_candidate_id
    /\ elapsed < 3

\* C24: without a target there is no candidate and no answer; a target, once
\* set, stays set; after the answer or the timeout nothing is read,
\* correlated or slept and the round only releases the session.
C24_LoopStateMachine ==
    [][/\ target_user_id' = None => (candidate' = None /\ result' = None)
       /\ target_user_id # None => target_user_id' # None
       /\ printed \in {"got-answer", "timeout"} =>
             /\ UNCHANGED <<timing, poll, stability, correlation, printed, result>>
             /\ pc' \in {"finally_context", "finally_playwright", "done"}]_vars

\* A round that found its target and a first candidate and then ran into the
\* deadline.
C24_Witness ==
    /\ pc = "done"
    /\ printed = "timeout"
    /\ target_user_id # None
    /\ stable_count = 1
    /\ last_text # None

\* C25: the snapshot is written by the one step before the input is looked
\* for, when nothing is typed or submitted yet, and by no other step; the
\* baseline it records is the greatest id of the user turns of the page, or
\* the empty string when the page holds none, and the texts are those of the
\* assistant turns of the page.
C25_SnapshotOnce ==
    [][/\ pc # "snapshot" => UNCHANGED snapshot
       /\ typed' => pc' # "snapshot"
       /\ pc = "snapshot" =>
             LET user_nodes == {i \in 1..Len(prior_page.nodes) :
                                   prior_page.nodes[i].class = "ym-ask-user-content"}
                 assistant_nodes == {i \in 1..Len(prior_page.nodes) :
                                        prior_page.nodes[i].class = "ym-askai-container"}
             IN  /\ ~typed /\ enter_presses = 0 /\ send_clicks = <<>>
                 /\ pc' = "find_input"
                 /\ IF user_nodes = {}
                    THEN baseline_max_user_id' = <<>>
                    ELSE \E i \in user_nodes :
                            /\ baseline_max_user_id' = prior_page.nodes[i].mid
                            /\ \A j \in user_nodes :
                                  ~StrLess(prior_page.nodes[i].mid, prior_page.nodes[j].mid)
                 /\ previous_assistant_text_set' =
                       {_normalize_text(prior_page.nodes[i].inner_text) :
                           i \in assistant_nodes}]_vars

\* The board was empty before the submission: the baseline is the empty
\* string, and the loop has polled with it.
C25_Witness ==
    /\ pc = "sleep"
    /\ prior_page = EmptyPage
    /\ baseline_max_user_id = <<>>
    /\ previous_assistant_text_set = {}
    /\ typed
    /\ target_user_id # None

\* C26: a poll whose read returns the empty conversation goes on to the sleep
\* and changes neither the target, the match flag, the recorded pair, the
\* count nor the outcome; from the loop test a poll is performed while the
\* deadline has not passed, and the timeout is reported only when it has.
C26_EmptyReadKeepsState ==
    [][/\ \A delay \in 0..MaxReadDelay :
             \A read \in {r \in Polled(question) : r.conversation = <<>>} :
                PollStep(delay, read) =>
                   /\ pc' = "sleep"
                   /\ candidate' = None
                   /\ UNCHANGED <<stability, correlation, printed, result>>
       /\ (pc = "loop" /\ clock < deadline) =>
             /\ pc' \in {"sleep", "finally_context"}
             /\ printed' # "timeout"
       /\ (pc = "sleep") => pc' = "loop"]_vars

\* The question asks for JSON and the target is the confirmed turn "3", so
\* every assistant turn of a read would be a candidate; the read held no
\* user turn and gave no candidate, so it was empty; the pair recorded before
\* it is kept.
C26_Witness ==
    /\ pc = "sleep"
    /\ expects_json
    /\ target_user_id = <<"3">>
    /\ target_user_is_question_match
    /\ user_ids = {}
    /\ candidate = None
    /\ stable_count = 1
    /\ last_text # None

\* C21 as claimed: on a poll that found a candidate, the count is the number
\* of consecutive polls, ending with this one, that found this id and text;
\* and the answer is returned only on a poll whose predecessor found the same
\* id and text.
C21_CountsConsecutivePolls ==
    (call.fn = "Stability" /\ call.args # <<>>) =>
        LET polls == call.args
            n == Len(polls)
            run == {k \in 1..n : \A j \in (n - k + 1)..n : polls[j].found = polls[n].found}
        IN  /\ polls[n].found # NoCandidate => returned[1] = Cardinality(run)
            /\ returned[4] => (n >= 2 /\ polls[n - 1].found = polls[n].found)

\* C23 as claimed: when the answer is returned, at least 3 seconds lie
\* between the first poll that found its id and text and the returning poll.
C23_DwellSinceFirstSeen ==
    (call.fn = "Stability" /\ call.args # <<>> /\ returned[4]) =>
        LET polls == call.args
            n == Len(polls)
            first == CHOOSE i \in 1..n :
                        /\ polls[i].found = polls[n].found
                        /\ \A j \in 1..(i - 1) : polls[j].found # polls[n].found
        IN  polls[n].elapsed - polls[first].elapsed >= 3

\* C27: the list returned holds, in document order, one message for each node
\* that does not raise, has a text that is not empty once normalized, and has
\* an id attribute, with that text, that id and the type of the node's class,
\* and nothing else; a page that cannot be queried gives the empty list; and
\* a second read of the same page returns the same list.
C27_ReadKeepsGoodNodes ==
    call.fn = "_collect_conversation_sequence" =>
        LET page == call.args[1]
            kept == {i \in 1..Len(page.nodes) :
                        /\ page.reachable
                        /\ ~page.nodes[i].raises
                        /\ _normalize_text(page.nodes[i].inner_text) # <<>>
                        /\ (page.nodes[i].pick # <<>> \/ page.nodes[i].mid # <<>>)}
        IN  /\ Len(returned) = Cardinality(kept)
            /\ \A k \in 1..Len(returned) :
                  \E i \in kept :
                     /\ Cardinality({j \in kept : j <= i}) = k
                     /\ returned[k].text = _normalize_text(page.nodes[i].inner_text)
                     /\ returned[k].id \in {page.nodes[i].pick, page.nodes[i].mid} \ {<<>>}
                     /\ returned[k].type =
                           IF page.nodes[i].class = "ym-askai-container" THEN "assistant" ELSE "user"
            /\ call.of_returned => returned = call.args[2]

\* A sound user turn, a node that raises, then a sound assistant turn: the
\* two sound turns are returned, in this order, by both reads.
C27_Witness ==
    /\ call.fn = "_collect_conversation_sequence"
    /\ call.of_returned
    /\ call.args[1].reachable
    /\ Len(call.args[1].nodes) = 3
    /\ call.args[1].nodes[2].raises
    /\ Len(returned) = 2
    /\ returned[1].id = <<"3">>
    /\ returned[1].type = "user"
    /\ returned[2].id = <<"8">>
    /\ returned[2].type = "assistant"

\* C28: _is_same_question(rendered, submitted) is true exactly when both
\* normalized texts are non-empty and the normalized submitted text is inside
\* the normalized rendered one, or a token of five or more token characters
\* of the submitted text is inside the rendered one, or both compact forms
\* are non-empty and the compact submitted text, or its last 10 characters
\* when it has at least 10, is inside the compact rendered text.
C28_SameQuestionRules ==
    call.fn = "_is_same_question" =>
        LET rendered == _normalize_text(call.args[1])
            submitted == _normalize_text(call.args[2])
            rendered_compact == Lower(SelectSeq(rendered, IsCompactChar))
            submitted_compact == Lower(SelectSeq(submitted, IsCompactChar))
            n == Len(submitted_compact)
        IN  returned =
               (/\ rendered # <<>>
                /\ submitted # <<>>
                /\ \/ Contains(rendered, submitted)
                   \/ \E token \in StrongTokens(submitted) : Contains(rendered, token)
                   \/ /\ rendered_compact # <<>>
                      /\ submitted_compact # <<>>
                      /\ \/ Contains(rendered_compact, submitted_compact)
                         \/ /\ n >= 10
                            /\ Contains(rendered_compact,
                                        SubSeq(submitted_compact, n - 9, n)))

\* The rendered text holds the last 10 letters of the submitted question and
\* none of the other rules applies; the answer is true.
C28_Witness ==
    /\ call.fn = "_is_same_question"
    /\ call.args = <<<<"c", "d", " ", "e", "f", " ", "g", "h", " ", "i", "j", " ", "k", "l", "!">>,
                     <<"a", "b", " ", "c", "d", " ", "e", "f", " ", "g", "h", " ", "i", "j", " ", "k", "l">>>>
    /\ returned = TRUE

\* C29 as claimed: ids that are decimal numbers are compared as numbers, so
\* with a confirmed target an assistant turn with a text and a greater number
\* than the target's is after the target: there is a candidate, and its
\* number is greater than the target's.
C29_IdsOrderedNumerically ==
    (/\ call.fn = "SelectCandidate"
     /\ call.args[2] # None
     /\ call.args[3]
     /\ call.args[5]) =>
        LET Value(id) ==
                IF Len(id) = 1 THEN Ord(id[1]) - 1
                ELSE 10 * (Ord(id[1]) - 1) + (Ord(id[2]) - 1)
            assistants == call.args[1]
            target == call.args[2]
        IN  (\E i \in 1..Len(assistants) :
                /\ assistants[i].text # <<>>
                /\ Value(assistants[i].id) > Value(target)) =>
               /\ returned # NoCandidate
               /\ Value(returned.id) > Value(target)

\* C30: when the library holds a board with the same normalized URL and
\* duplicates are not allowed, the call ends without a round and without a
\* new board; a single-pass call asks one round when that round returns an
\* answer whose metadata has topics, and otherwise goes on with the summary
\* round, three rounds at most; a two-pass call asks two rounds at most; and
\* a board is added only by the last step, after the rounds, with topics and
\* under the normalized URL.
C30_SmartAddRounds ==
    [][/\ (/\ smart_add.pc = "find"
           /\ find_board_by_url(library.boards, smart_add.url) # 0
           /\ ~smart_add.allow_duplicate_url) =>
             /\ smart_add'.pc = "done"
             /\ smart_add'.status = "exists"
             /\ smart_add'.asked = <<>>
             /\ library'.boards = library.boards
       /\ Len(smart_add'.asked) <= (IF smart_add.single_pass THEN 3 ELSE 2)
       /\ (/\ smart_add.single_pass
           /\ smart_add.asked # <<>>
           /\ smart_add.asked[1].answer # None
           /\ _metadata_from_discovery(smart_add.asked[1].answer).topics # <<>>) =>
             (smart_add'.asked = smart_add.asked /\ Len(smart_add.asked) = 1)
       /\ (/\ smart_add.single_pass
           /\ Len(smart_add.asked) = 1
           /\ smart_add.asked[1].answer = None) =>
             (Len(smart_add'.asked) = 2 /\ smart_add'.asked[2].question = "summary")
       /\ (~smart_add.single_pass /\ smart_add.asked = <<>> /\ smart_add'.asked # <<>>) =>
             smart_add'.asked[1].question = "summary"
       /\ library'.boards # library.boards =>
             /\ smart_add'.pc = "done"
             /\ smart_add'.status = "added"
             /\ smart_add'.asked = smart_add.asked
             /\ smart_add.asked # <<>>
             /\ Len(library'.boards) = Len(library.boards) + 1
             /\ SubSeq(library'.boards, 1, Len(library.boards)) = library.boards
             /\ library'.boards[Len(library'.boards)].board.topics # <<>>
             /\ library'.boards[Len(library'.boards)].board.url =
                   normalize_board_url(smart_add.url)]_vars

\* The single pass returned no answer, the summary round and the JSON round
\* followed, and the board was added: three rounds.
C30_Witness ==
    /\ smart_add.pc = "done"
    /\ smart_add.single_pass
    /\ smart_add.status = "added"
    /\ Len(smart_add.asked) = 3
    /\ smart_add.asked[1].answer = None
    /\ library.boards # <<>>
    /\ library.boards[Len(library.boards)].board.url = normalize_board_url(smart_add.url)

\* C31: during the polling loop target_user_is_question_match, once true,
\* stays true; whenever it is true after a step, target_user_id is set and
\* above baseline_max_user_id; the target of a confirmed match is only ever
\* assigned by the primary path, to the newest matching user turn of the
\* poll's read, so the fallback never assigns it again.
C31_ConfirmedMatchMonotone ==
    [][(pc \in {"loop", "sleep"}) =>
          /\ target_user_is_question_match => target_user_is_question_match'
          /\ target_user_is_question_match' =>
                /\ target_user_id' # None
                /\ StrLess(baseline_max_user_id', target_user_id')
                /\ (~target_user_is_question_match \/ target_user_id' # target_user_id) =>
                      /\ matching_user_ids' # {}
                      /\ target_user_id' = StrMax(matching_user_ids')]_vars

\* A confirmed target "7" after a poll at 20 seconds or later whose read held
\* only the newer user turn "9", which does not match.
C31_Witness ==
    /\ pc = "sleep"
    /\ target_user_is_question_match
    /\ target_user_id = <<"7">>
    /\ user_ids = {<<"9">>}
    /\ matching_user_ids = {}
    /\ StrLess(baseline_max_user_id, <<"9">>)
    /\ elapsed >= 20

\* C32: in the polling loop a target that is set but not confirmed implies
\* that at least 20 seconds have elapsed since the submission; and whatever
\* the next poll reads, the candidate it selects is the one it would select
\* with an empty snapshot of assistant texts, that is, the stale-text guard
\* excludes nothing.
C32_StaleGuardNeverFires ==
    /\ (pc \in {"loop", "sleep"} /\ target_user_id # None
            /\ ~target_user_is_question_match) => elapsed >= 20
    /\ pc = "loop" =>
          \A delay \in 0..MaxReadDelay : \A read \in Polled(question) :
              Correlate(read.conversation, target_user_id,
                        target_user_is_question_match, clock + delay,
                        normalized_question, baseline_max_user_id, expects_json,
                        previous_assistant_text_set)[3]
              = Correlate(read.conversation, target_user_id,
                          target_user_is_question_match, clock + delay,
                          normalized_question, baseline_max_user_id, expects_json,
                          {})[3]

\* After a poll the target is set by the fallback, unconfirmed, and the
\* candidate is a text of the snapshot: the guard's other two conditions
\* hold and the text is selected all the same.
C32_Witness ==
    /\ pc = "sleep"
    /\ target_user_id # None
    /\ ~target_user_is_question_match
    /\ candidate # None
    /\ candidate \in previous_assistant_text_set

\* C33: on a library constructed empty, after any calls of add_board,
\* remove_board, activate_board, update_board, increment_use_count and
\* import_library, active_board_id is None or a key of boards; and as long
\* as only add_board, remove_board and activate_board were called, it is set
\* exactly when boards is not empty.
C33_ActiveSelectionValid ==
    /\ library.active_board_id = None \/ library.active_board_id \in Keys(library.boards)
    /\ ~call.others_called =>
          (library.active_board_id # None <=> library.boards # <<>>)

\* Two boards named "A" were added, the first took the selection and was
\* removed: the second, "a-2", is all that is left and is selected.
C33_Witness ==
    /\ ~call.others_called
    /\ Len(library.boards) = 1
    /\ library.boards[1].key = <<"a", "-", "2">>
    /\ library.boards[1].board.name = NameA
    /\ library.active_board_id = <<"a", "-", "2">>

\* C34: on a library that only add_board, remove_board and activate_board
\* were called on, every key of boards is the id of its board, and for every
\* name add_board stores the new board last, under a key that was not a key
\* before, and leaves the other entries as they were: one board more.
C34_AddNeverOverwrites ==
    ~call.others_called =>
        /\ \A i \in 1..Len(library.boards) :
              library.boards[i].key = library.boards[i].board.id
        /\ \A name \in BoardNames \cup {<<"a">>, <<" ", "!">>} :
              \E added \in {add_board(library, [board |-> "A", context_id |-> TRUE], name,
                                      <<"topic">>).boards} :
                 /\ Len(added) = Len(library.boards) + 1
                 /\ SubSeq(added, 1, Len(library.boards)) = library.boards
                 /\ added[Len(added)].key \notin Keys(library.boards)
                 /\ added[Len(added)].key = added[Len(added)].board.id
                 /\ added[Len(added)].board.name = name

\* Two boards named "A" were added and the first removed, leaving "a-2"; the
\* board named "a 2" then added has that slug and is stored as "a-2-2".
C34_Witness ==
    /\ ~call.others_called
    /\ Len(library.boards) = 2
    /\ library.boards[1].key = <<"a", "-", "2">>
    /\ library.boards[1].board.name = NameA
    /\ library.boards[2].key = <<"a", "-", "2", "-", "2">>
    /\ library.boards[2].board.name = NameA2

C36_ReminderRoundTrip ==
    call.fn = "_clean_discovery_answer" =>
        /\ (/\ ~call.of_returned
            /\ call.args[2] = call.args[1] \o FOLLOW_UP_REMINDER
            /\ ~Contains(call.args[1], DiscoveryMarker)) =>
                returned = Strip(call.args[1])
        /\ call.of_returned => returned = call.args[2]

\* The answer " \n ok \t \n" with the reminder appended was cleaned to "ok",
\* and "ok" cleaned again.
C36_Witness ==
    /\ call.fn = "_clean_discovery_answer"
    /\ call.of_returned
    /\ call.args = <<<<" ", "\n", "o", "k", " ", "\t", "\n">>, <<"o", "k">>>>
    /\ returned = <<"o", "k">>
====
